---------------------------- MODULE Spec2Model ----------------------------
(***************************************************************************)
(* State-machine model of the CozyQuiz round orchestration engine          *)
(* (src/src/gameState.js, the server that starts at line 1520): the team   *)
(* registry, the wagering and pot ledger, the phase state machine and the  *)
(* actionId idempotency guard.                                             *)
(*                                                                         *)
(* Team names, avatars and join timestamps are display data that no        *)
(* command of the ledger reads; they are left out of a team's record.      *)
(* Broadcasts (io.emit) do not change the state and are left out.          *)
(***************************************************************************)
EXTENDS Integers, FiniteSets, Sequences, TLC

(***************************************************************************)
(* Bounds of the model.                                                    *)
(***************************************************************************)
\* How many counted commands one explored run handles.  Each specification
\* counts the commands that move balances or pots (kick, team update, start,
\* lock, resolve, undo), and only those that changed the game state; joins,
\* stakes, round navigation and announcements are never counted.
MaxSpent == 4
\* How many times the clock is advanced in one explored run.
MaxTicks == 2

(***************************************************************************)
(* Program constants.                                                      *)
(***************************************************************************)
IDEMP_WINDOW_MS == 10000
PURGE_EVERY_MS == 60000
ROUNDS_PER_CATEGORY == 3
FIXED_BASE == 3
MIN_PAID_STAKE == 3
START_COINS == 24
START_JOKER == 1
DEFAULT_TEAM_LIMIT == 3

(***************************************************************************)
(* Input domains.                                                          *)
(***************************************************************************)
\* Connections: ensureTeam(socket) is the persistent teamId or the socket id.
Ids == {"t1", "t2", "t3"}
\* An id no team ever registers under (a stale or mistyped id in a payload).
Ghost == "ghost"
\* JavaScript's null and undefined, as payload values and as state.currentCategory.
Null == "null"
Undef == "undefined"
\* Date.now() at process start: an epoch value far above the purge period.
StartTime == 100000
\* The guard's key for a command that carries no actionId.
NoAction == "none"
ActionIds == {"a1", "a2"}

VARIABLES
  teams,            \* Map teamId -> [coins, quizJoker]
  phase,            \* state.phase
  currentCategory,  \* state.currentCategory (Null when none)
  roundIndex,       \* state.roundIndex
  stakes,           \* state.stakes: teamId -> [stake, useJoker]
  categoryPot,      \* state.categoryPot
  carryRound,       \* state.carryRound
  teamLimit,        \* state.teamLimit
  roundWins,        \* state.roundWins: teamId -> count
  categoryEarnings, \* state.categoryEarnings: teamId -> coins won
  resolvedRounds,   \* state.resolvedRounds: set of round keys
  pendingResult,    \* state.pendingResult: {} (null) or {record}
  lastResult,       \* state.lastResult: {} (null) or {record}
  submissions,      \* state.submissions: teamId -> the answer stored for it
  timerEndsAt,      \* state.timerEndsAt: {} (null) or {epoch ms}
  timerDuration,    \* state.timerDuration, in seconds
  timerPausedRemaining, \* state.timerPausedRemaining, in seconds
  lastTimerEnd,     \* state.lastTimerEnd: {} (null) or {epoch ms}
  elch,             \* state.elch: the buzzer record
  wire,             \* the result:announce events the command handled last
                    \* broadcast: {} (none) or {record}
  summaryWire,      \* the category:summary events the command handled last
                    \* broadcast: {} (none) or {record}
  saveTmo,          \* saveTmo: TRUE while a debounced write is scheduled
  disk,             \* the files state.json and teams.json: {} (none yet) or
                    \* {[state, teams]} as written last
  recentActions,    \* _recentActions: actionId -> first-seen timestamp
  lastPurge,        \* _recentActions._lastPurge (0 while unset)
  now,              \* Date.now()
  lastCmd,          \* the command handled last: its name and, for some
                    \* commands, its payload and what it found ("other" for
                    \* the commands no property looks at)
  spent,            \* balance-changing commands handled so far
  ticks             \* clock advances so far

registryVars == <<teams>>
ledgerVars == <<phase, currentCategory, roundIndex, stakes, categoryPot,
                carryRound, teamLimit, roundWins, categoryEarnings,
                resolvedRounds, pendingResult, lastResult>>
boardVars == <<submissions>>
timerVars == <<timerEndsAt, timerDuration, timerPausedRemaining, lastTimerEnd>>
elchVars == <<elch>>
persistVars == <<saveTmo, disk>>
guardVars == <<recentActions, lastPurge>>
gameVars == <<registryVars, ledgerVars, boardVars, timerVars, elchVars>>
vars == <<registryVars, ledgerVars, boardVars, timerVars, elchVars, wire,
          summaryWire, persistVars, guardVars, now, lastCmd, spent, ticks>>

(***************************************************************************)
(* Helpers.                                                                *)
(***************************************************************************)
Max(a, b) == IF a >= b THEN a ELSE b
Min(a, b) == IF a <= b THEN a ELSE b

\* Sum of f[x] over x in S.
RECURSIVE SumOver(_, _)
SumOver(f, S) ==
  IF S = {} THEN 0
  ELSE LET x == CHOOSE y \in S : TRUE IN f[x] + SumOver(f, S \ {x})

\* Map.has / `id in obj`.
Has(m, id) == id \in DOMAIN m
\* obj[id] || 0
GetOr0(m, id) == IF id \in DOMAIN m THEN m[id] ELSE 0
\* obj[id] = v
Put(m, id, v) == [x \in (DOMAIN m) \cup {id} |-> IF x = id THEN v ELSE m[x]]
\* delete obj[id]
Del(m, id) == [x \in (DOMAIN m) \ {id} |-> m[x]]
EmptyMap == [x \in {} |-> 0]

(***************************************************************************)
(* Round keys (gameState.js 1647-1664).                                    *)
(***************************************************************************)
roundKeyFor(category, roundIdx) ==
  IF category = Null THEN Null ELSE <<category, roundIdx>>

currentRoundKey == roundKeyFor(currentCategory, roundIndex)

isRoundResolved ==
  IF currentCategory = Null THEN FALSE
  ELSE <<currentCategory, roundIndex>> \in resolvedRounds

\* Mutation of markRoundResolved: a mark is never taken off.
markRoundKept(flag) ==
  IF currentCategory = Null THEN resolvedRounds
  ELSE IF flag THEN resolvedRounds \cup {<<currentCategory, roundIndex>>}
  ELSE resolvedRounds

\* The value of state.resolvedRounds after markRoundResolved(flag).
markRoundResolved(flag) ==
  IF currentCategory = Null THEN resolvedRounds
  ELSE IF flag THEN resolvedRounds \cup {<<currentCategory, roundIndex>>}
  ELSE resolvedRounds \ {<<currentCategory, roundIndex>>}

\* state.elch as the state object is built (1625-1633) and as the category
\* handlers rebuild it.  buzzOrder holds the team ids in arrival order (the
\* ts of an entry is only echoed to clients).
elchInitial ==
  [category |-> Null, used |-> {}, buzzOrder |-> <<>>, buzzLocked |-> FALSE,
   exhausted |-> FALSE, phase |-> "IDLE", buzzAnswerEndsAt |-> {}]

Init ==
  /\ teams = EmptyMap
  /\ phase = "LOBBY"
  /\ currentCategory = Null
  /\ roundIndex = 0
  /\ stakes = EmptyMap
  /\ categoryPot = 0
  /\ carryRound = 0
  /\ teamLimit = DEFAULT_TEAM_LIMIT
  /\ roundWins = EmptyMap
  /\ categoryEarnings = EmptyMap
  /\ resolvedRounds = {}
  /\ pendingResult = {}
  /\ lastResult = {}
  /\ submissions = EmptyMap
  /\ timerEndsAt = {}
  /\ timerDuration = 0
  /\ timerPausedRemaining = 0
  /\ lastTimerEnd = {}
  /\ elch = elchInitial
  /\ wire = {}
  /\ summaryWire = {}
  /\ saveTmo = FALSE
  /\ disk = {}
  /\ recentActions = EmptyMap
  /\ lastPurge = 0
  /\ now = StartTime
  /\ lastCmd = [op |-> "other"]
  /\ spent = 0
  /\ ticks = 0

(***************************************************************************)
(* Idempotency guard (gameState.js 1584-1596).  isDuplicateAction both     *)
(* answers and updates the map: DupAnswer is its return value, DupMap and  *)
(* DupPurge the map and the purge stamp it leaves behind.                  *)
(***************************************************************************)
PurgeDue == DOMAIN recentActions # {} /\ lastPurge + PURGE_EVERY_MS < now

\* Mutation of PurgedMap: an entry as old as the window is purged too.
PurgedEarly ==
  IF PurgeDue
  THEN [k \in {a \in DOMAIN recentActions : ~(now - recentActions[a] >= IDEMP_WINDOW_MS)}
          |-> recentActions[k]]
  ELSE recentActions

\* The map after the purge (1589-1592): entries older than the window go.
PurgedMap ==
  IF PurgeDue
  THEN [k \in {a \in DOMAIN recentActions : ~(now - recentActions[a] > IDEMP_WINDOW_MS)}
          |-> recentActions[k]]
  ELSE recentActions

DupAnswer(actionId) ==
  IF actionId = NoAction THEN FALSE ELSE Has(PurgedMap, actionId)

DupMap(actionId) ==
  IF actionId = NoAction THEN recentActions
  ELSE IF Has(PurgedMap, actionId) THEN PurgedMap
  ELSE Put(PurgedMap, actionId, now)

DupPurge(actionId) ==
  IF actionId # NoAction /\ PurgeDue THEN now ELSE lastPurge

\* The guard's step as part of a handler.
isDuplicateAction(actionId) ==
  /\ recentActions' = DupMap(actionId)
  /\ lastPurge' = DupPurge(actionId)


(***************************************************************************)
(* Shorthands of the handlers.                                             *)
(***************************************************************************)
\* The handler touches neither the submissions, the timer nor the buzzer.
Aside == UNCHANGED <<boardVars, timerVars, elchVars>>
\* The handler broadcasts neither a result:announce nor a category:summary.
Silent == wire' = {} /\ summaryWire' = {}

\* markDirty() (1750-1757): a write is scheduled unless one is already.
markDirty == saveTmo' = TRUE /\ UNCHANGED disk
\* The handler's path does not call markDirty().
Unsaved == UNCHANGED persistVars
\* An early return: nothing is written and nothing scheduled.
Returned == UNCHANGED <<gameVars, persistVars>>

\* The two labels of a round (the `fixed` table, 2409-2413).
fixedPrimary(roundIdx) ==
  IF roundIdx = 1 THEN "Tiere" ELSE IF roundIdx = 2 THEN "Laender" ELSE "Staedte"
fixedFallback(roundIdx) ==
  IF roundIdx = 1 THEN "Marken" ELSE IF roundIdx = 2 THEN "Kueche" ELSE "Berufe"

\* The automatic pick of a label for a round (2039-2050, 2243-2256,
\* 2280-2293): the primary, else the fallback, else the buzzer is exhausted;
\* the exhausted branch leaves buzzAnswerEndsAt as it is.
elchArm(e, roundIdx) ==
  LET pick == IF fixedPrimary(roundIdx) \in e.used THEN fixedFallback(roundIdx)
              ELSE fixedPrimary(roundIdx)
  IN IF pick \in e.used
     THEN [e EXCEPT !.exhausted = TRUE, !.category = Null, !.phase = "LOCK"]
     ELSE [e EXCEPT !.category = pick, !.used = @ \cup {pick},
                    !.phase = "BUZZ_READY", !.buzzAnswerEndsAt = {}]

\* The buzzer after a round change in the Elch category (2238-2257).
elchRearm(roundIdx) ==
  IF currentCategory = "Elch"
  THEN elchArm([elch EXCEPT !.buzzOrder = <<>>, !.buzzLocked = FALSE], roundIdx)
  ELSE elch

(***************************************************************************)
(* Team flow (gameState.js 1836-1891).                                     *)
(***************************************************************************)
\* game.teamJoin: a first join registers the team with 24 coins and one
\* joker; a rejoin only touches name and avatar.
teamJoin(id) ==
  /\ teams' = IF Has(teams, id) THEN teams
              ELSE Put(teams, id, [coins |-> START_COINS, quizJoker |-> START_JOKER])
  /\ UNCHANGED ledgerVars
  /\ Aside
  /\ markDirty

\* Mutation of dynamicValid: 9 is allowed whatever the team limit.
dynamicWide(limit) == {0, 3, 6, 9}

\* dynamicValid (1881): 9 is allowed when more than two teams are configured.
dynamicValid(limit) == IF limit > 2 THEN {0, 3, 6, 9} ELSE {0, 3, 6}

\* The stored amount (1882-1884): an amount outside dynamicValid, or any
\* paid amount of a team whose bank is below 3, becomes 0.
storedStake(stake, limit, coins) ==
  LET s == IF stake \in dynamicValid(limit) THEN stake ELSE 0
  IN IF coins < MIN_PAID_STAKE /\ s > 0 THEN 0 ELSE s

\* Mutation of allowJoker: the joker is applied even when none is held.
allowJokerless(useJoker, quizJoker, s) == useJoker /\ s > 0

\* allowJoker (1886).
allowJoker(useJoker, quizJoker, s) == useJoker /\ quizJoker > 0 /\ s > 0

\* game.teamSetStake.
teamSetStake(id, stake, useJoker) ==
  IF phase # "STAKE" \/ ~Has(teams, id) THEN Returned
  ELSE LET t == teams[id]
           s == storedStake(stake, teamLimit, t.coins)
       IN /\ stakes' = Put(stakes, id,
                           [stake |-> s, useJoker |-> allowJoker(useJoker, t.quizJoker, s)])
          /\ UNCHANGED <<teams, phase, currentCategory, roundIndex, categoryPot,
                         carryRound, teamLimit, roundWins, categoryEarnings,
                         resolvedRounds, pendingResult, lastResult>>
          /\ Aside
          /\ markDirty

(***************************************************************************)
(* Admin flow: registry (gameState.js 1979-2006).                          *)
(***************************************************************************)
\* game.adminTeamUpdate: coinPatch and jokerPatch are {} (field absent from
\* the patch) or {n}.
adminTeamUpdate(id, coinPatch, jokerPatch) ==
  /\ teams' = IF ~Has(teams, id) THEN teams
              ELSE Put(teams, id,
                     [coins |-> IF coinPatch = {} THEN teams[id].coins
                                ELSE CHOOSE c \in coinPatch : TRUE,
                      quizJoker |-> IF jokerPatch = {} THEN teams[id].quizJoker
                                    ELSE CHOOSE j \in jokerPatch : TRUE])
  /\ UNCHANGED ledgerVars
  /\ Aside
  /\ IF Has(teams, id) THEN markDirty ELSE Unsaved

\* game.adminTeamKick.
adminTeamKick(id) ==
  IF ~Has(teams, id) THEN Returned
  ELSE /\ teams' = Del(teams, id)
       /\ stakes' = Del(stakes, id)
       /\ categoryEarnings' = Del(categoryEarnings, id)
       /\ roundWins' = Del(roundWins, id)
       /\ submissions' = Del(submissions, id)
       /\ elch' = [elch EXCEPT !.buzzOrder = SelectSeq(@, LAMBDA b : b # id)]
       /\ UNCHANGED <<phase, currentCategory, roundIndex, categoryPot, carryRound,
                      teamLimit, resolvedRounds, pendingResult, lastResult>>
       /\ UNCHANGED timerVars
       /\ markDirty

(***************************************************************************)
(* Admin flow: category and stakes (gameState.js 2008-2084).               *)
(***************************************************************************)
\* game.adminStartCategory.  The category is stored as sent: a payload
\* without one (category = Null) leaves state.currentCategory falsy.
\* pendingResult and lastResult are not reset.
adminStartCategory(category) ==
  /\ phase' = "STAKE"
  /\ currentCategory' = category
  /\ roundIndex' = 0
  /\ stakes' = EmptyMap
  /\ categoryPot' = 0
  /\ carryRound' = 0
  /\ roundWins' = EmptyMap
  /\ categoryEarnings' = EmptyMap
  /\ resolvedRounds' = {}
  /\ submissions' = EmptyMap
  /\ elch' = IF category = "Elch" THEN elchArm(elchInitial, 0) ELSE elchInitial
  /\ UNCHANGED <<teams, teamLimit, pendingResult, lastResult>>
  /\ UNCHANGED timerVars
  /\ markDirty

\* game.adminSetTeamLimit: Math.max(2, Math.min(5, Number(limit)||3)).
adminSetTeamLimit(limit) ==
  /\ teamLimit' = Max(2, Min(5, IF limit = 0 THEN DEFAULT_TEAM_LIMIT ELSE limit))
  /\ UNCHANGED <<teams, phase, currentCategory, roundIndex, stakes, categoryPot,
                 carryRound, roundWins, categoryEarnings, resolvedRounds,
                 pendingResult, lastResult>>
  /\ Aside
  /\ IF teamLimit' # teamLimit THEN markDirty ELSE Unsaved

\* Mutation of potOf: the joker adds nothing to the pot.
potNoJoker(st) ==
  SumOver([id \in DOMAIN st |-> st[id].stake], DOMAIN st) + FIXED_BASE

\* sumEinsatz + jokerExtra + 3 (2078-2080).
potOf(st) ==
  SumOver([id \in DOMAIN st |-> st[id].stake], DOMAIN st)
  + SumOver([id \in DOMAIN st |-> IF st[id].useJoker THEN st[id].stake ELSE 0], DOMAIN st)
  + FIXED_BASE

\* A team's coins after its stake is debited (2074).
debited(coins, stake) == Max(0, coins - stake)

\* game.adminLockStakes.  The function has no phase guard.
adminLockStakes ==
  /\ teams' = [id \in DOMAIN teams |->
                IF Has(stakes, id)
                THEN [coins |-> debited(teams[id].coins, stakes[id].stake),
                      quizJoker |-> IF stakes[id].useJoker THEN 0 ELSE teams[id].quizJoker]
                ELSE teams[id]]
  /\ categoryPot' = potOf(stakes)
  /\ phase' = "CATEGORY"
  /\ UNCHANGED <<currentCategory, roundIndex, stakes, carryRound, teamLimit,
                 roundWins, categoryEarnings, resolvedRounds, pendingResult, lastResult>>
  /\ Aside
  /\ markDirty

(***************************************************************************)
(* Admin flow: settlement (gameState.js 2086-2225).                        *)
(*                                                                         *)
(* The payload's winnerIds array is modelled as the set of its entries     *)
(* (the code dedups it with new Set and only its membership is read);      *)
(* winnerId is a team id, Null or Undef (absent).                          *)
(***************************************************************************)
\* Mutation of payoutOf: half the pot instead of a third.
payoutHalf(pot) == pot \div 2

\* payout (2090).
payoutOf(pot) == pot \div ROUNDS_PER_CATEGORY

\* uniqueIds (2092): the registered ids among winnerIds.
uniqueIdsOf(winnerIds) == {id \in winnerIds : id \notin {Null, Undef} /\ Has(teams, id)}

\* Mutation of shareOf: the share is rounded up.
shareCeil(totalPot, n) == (totalPot + n - 1) \div n

\* share (2101).
shareOf(totalPot, n) == totalPot \div n

\* The carry after a tie (2112-2117): the remainder is kept only while
\* rounds remain; the carry itself is not reset.
tieCarry(carry, remainder, roundIdx) ==
  IF roundIdx < ROUNDS_PER_CATEGORY - 1 THEN carry + remainder ELSE carry

\* Mutation of creditAll: the tallies are kept but no coins are paid.
creditTally(ids, gain) ==
  /\ teams' = teams
  /\ roundWins' = [id \in (DOMAIN roundWins) \cup ids |->
                    IF id \in ids THEN GetOr0(roundWins, id) + 1 ELSE roundWins[id]]
  /\ categoryEarnings' = [id \in (DOMAIN categoryEarnings) \cup ids |->
                           IF id \in ids THEN GetOr0(categoryEarnings, id) + gain
                           ELSE categoryEarnings[id]]

\* team.coins += gain; roundWins and categoryEarnings follow (2104-2109).
creditAll(ids, gain) ==
  /\ teams' = [id \in DOMAIN teams |->
                IF id \in ids THEN [teams[id] EXCEPT !.coins = @ + gain] ELSE teams[id]]
  /\ roundWins' = [id \in (DOMAIN roundWins) \cup ids |->
                    IF id \in ids THEN GetOr0(roundWins, id) + 1 ELSE roundWins[id]]
  /\ categoryEarnings' = [id \in (DOMAIN categoryEarnings) \cup ids |->
                           IF id \in ids THEN GetOr0(categoryEarnings, id) + gain
                           ELSE categoryEarnings[id]]

\* The record stored as pendingResult (2146-2158); emitPendingResult (1679)
\* copies it to lastResult in the same call.
resultRecord(resolvedWinnerId, resolvedWinnerIds, payout, newCarry, tieShare) ==
  [winnerId |-> resolvedWinnerId,
   winnerIds |-> resolvedWinnerIds,
   category |-> currentCategory,
   roundIndex |-> roundIndex,
   payout |-> payout,
   carry |-> newCarry,
   tiePayouts |-> IF Cardinality(resolvedWinnerIds) > 1
                  THEN [id \in resolvedWinnerIds |-> tieShare] ELSE EmptyMap,
   carriedAmount |-> IF resolvedWinnerId = Null /\ resolvedWinnerIds = {} /\ newCarry > 0
                     THEN newCarry ELSE 0,
   at |-> now]

\* The tail of a successful resolution (2143-2162): emitPendingResult
\* broadcasts the record as result:announce at once.
storeResult(resolvedWinnerId, resolvedWinnerIds, payout, newCarry, tieShare) ==
  /\ carryRound' = newCarry
  /\ resolvedRounds' = markRoundResolved(TRUE)
  /\ pendingResult' = {resultRecord(resolvedWinnerId, resolvedWinnerIds, payout, newCarry, tieShare)}
  /\ lastResult' = pendingResult'
  /\ wire' = pendingResult'
  /\ summaryWire' = {}
  /\ UNCHANGED <<phase, currentCategory, roundIndex, stakes, categoryPot, teamLimit>>
  /\ markDirty

\* The body of game.adminResolveRound: what it does to the registry, the
\* ledger and the wire.  It touches neither the submissions, the timer nor
\* the buzzer, which adminElchConfirm has written just before calling it.
resolveRoundLedger(winnerId, winnerIds) ==
  IF phase # "CATEGORY" \/ isRoundResolved
  THEN UNCHANGED <<registryVars, ledgerVars>> /\ Silent /\ Unsaved
  ELSE
    LET payout == payoutOf(categoryPot)
        uniqueIds == uniqueIdsOf(winnerIds)
        totalPot == payout + carryRound
        n == Cardinality(uniqueIds)
    IN IF n > 1
       THEN LET share == shareOf(totalPot, n)
                remainder == totalPot - share * n
            IN /\ creditAll(uniqueIds, share)
               /\ storeResult(Null, uniqueIds, payout,
                              tieCarry(carryRound, remainder, roundIndex), share)
       ELSE LET rawSingle == IF n = 1 THEN CHOOSE id \in uniqueIds : TRUE ELSE winnerId
                singleId == IF rawSingle \in {Null, Undef} THEN Null ELSE rawSingle
            IN IF singleId # Null /\ Has(teams, singleId)
               THEN /\ creditAll({singleId}, totalPot)
                    /\ storeResult(singleId, {singleId}, payout, 0, 0)
               ELSE IF winnerId = Null
               THEN /\ UNCHANGED <<teams, roundWins, categoryEarnings>>
                    /\ storeResult(Null, {}, payout, carryRound + payout, 0)
               ELSE UNCHANGED <<registryVars, ledgerVars>> /\ Silent /\ Unsaved

\* game.adminResolveRound.
adminResolveRound(winnerId, winnerIds) ==
  resolveRoundLedger(winnerId, winnerIds) /\ Aside

\* game.adminRoundEnd: announce the pending result of the current round and
\* clear it.
adminRoundEnd ==
  IF \/ pendingResult = {}
     \/ \E r \in pendingResult : r.category # currentCategory \/ r.roundIndex # roundIndex
  THEN Returned /\ Silent
  ELSE /\ wire' = pendingResult
       /\ summaryWire' = {}
       /\ pendingResult' = {}
       /\ UNCHANGED <<teams, phase, currentCategory, roundIndex, stakes, categoryPot,
                      carryRound, teamLimit, roundWins, categoryEarnings,
                      resolvedRounds, lastResult>>
       /\ Aside
       /\ markDirty

\* Mutation of restored: the snapshot value is taken as it is.
restoredRaw(value) == value

\* Math.max(0, Math.floor(parsed)) for an integer value (2196, 2202).
restored(value) == Max(0, value)

\* `last` (2204-2206): the pending result if it is the current round's,
\* else the last result if it is.
matching(res) ==
  {r \in res : r.category = currentCategory /\ r.roundIndex = roundIndex}
lastOfRound == IF matching(pendingResult) # {} THEN matching(pendingResult)
               ELSE matching(lastResult)

\* gain (2211-2213): what the undo takes back from a winner's earnings.
undoGain(last, id) ==
  IF Has(last.tiePayouts, id) THEN last.tiePayouts[id]
  ELSE IF last.winnerId = id THEN last.payout + last.carry ELSE 0

\* game.adminRoundUndo.  A snapshot is [coins |-> map teamId -> integer (the
\* empty map when absent), carryRound |-> {} (absent) or {integer}].
adminRoundUndo(snapshot) ==
  IF phase # "CATEGORY" \/ ~isRoundResolved THEN Returned
  ELSE
    LET coinMap == snapshot.coins
        winners == IF lastOfRound = {} THEN {}
                   ELSE LET last == CHOOSE r \in lastOfRound : TRUE
                        IN IF last.winnerIds # {} THEN last.winnerIds
                           ELSE IF last.winnerId # Null THEN {last.winnerId} ELSE {}
        gainOf(id) == undoGain(CHOOSE r \in lastOfRound : TRUE, id)
    IN /\ teams' = [id \in DOMAIN teams |->
                     IF Has(coinMap, id)
                     THEN [teams[id] EXCEPT !.coins = restored(coinMap[id])]
                     ELSE teams[id]]
       /\ carryRound' = IF snapshot.carryRound = {} THEN carryRound
                        ELSE restored(CHOOSE c \in snapshot.carryRound : TRUE)
       /\ roundWins' = [id \in DOMAIN roundWins |->
                         IF id \in winners /\ roundWins[id] # 0
                         THEN Max(0, roundWins[id] - 1) ELSE roundWins[id]]
       /\ categoryEarnings' = [id \in DOMAIN categoryEarnings |->
                                IF id \in winners /\ gainOf(id) # 0 /\ categoryEarnings[id] # 0
                                THEN Max(0, categoryEarnings[id] - gainOf(id))
                                ELSE categoryEarnings[id]]
       /\ pendingResult' = {}
       /\ lastResult' = {}
       /\ resolvedRounds' = markRoundResolved(FALSE)
       /\ UNCHANGED <<phase, currentCategory, roundIndex, stakes, categoryPot, teamLimit>>
       /\ Aside
       /\ markDirty

(***************************************************************************)
(* Admin flow: round navigation and category end (gameState.js 2227-2360,  *)
(* 2515-2539).                                                             *)
(***************************************************************************)
\* Mutation of nextIndex: no upper bound.
nextIndexFree == roundIndex + 1

\* Math.min(ROUNDS_PER_CATEGORY-1, state.roundIndex+1) (2233).
nextIndex == Min(ROUNDS_PER_CATEGORY - 1, roundIndex + 1)

\* game.adminRoundNext.  markRoundResolved(false) runs before the index moves.
adminRoundNext ==
  IF phase # "CATEGORY" THEN Returned
  ELSE /\ pendingResult' = {}
       /\ lastResult' = {}
       /\ resolvedRounds' = markRoundResolved(FALSE)
       /\ roundIndex' = nextIndex
       /\ submissions' = EmptyMap
       /\ elch' = elchRearm(roundIndex')
       /\ UNCHANGED <<teams, phase, currentCategory, stakes, categoryPot, carryRound,
                      teamLimit, roundWins, categoryEarnings>>
       /\ UNCHANGED timerVars
       /\ markDirty

\* game.adminRoundPrev.
adminRoundPrev ==
  IF phase # "CATEGORY" THEN Returned
  ELSE /\ pendingResult' = {}
       /\ lastResult' = {}
       /\ resolvedRounds' = markRoundResolved(FALSE)
       /\ roundIndex' = Max(0, roundIndex - 1)
       /\ submissions' = EmptyMap
       /\ elch' = elchRearm(roundIndex')
       /\ UNCHANGED <<teams, phase, currentCategory, stakes, categoryPot, carryRound,
                      teamLimit, roundWins, categoryEarnings>>
       /\ UNCHANGED timerVars
       /\ markDirty

\* The reset shared by game.adminFinishCategory and game.adminGotoLobby.
toLobby ==
  /\ phase' = "LOBBY"
  /\ currentCategory' = Null
  /\ roundIndex' = 0
  /\ stakes' = EmptyMap
  /\ categoryPot' = 0
  /\ carryRound' = 0
  /\ roundWins' = EmptyMap
  /\ categoryEarnings' = EmptyMap
  /\ resolvedRounds' = {}
  /\ pendingResult' = {}
  /\ lastResult' = {}
  /\ submissions' = EmptyMap
  /\ elch' = elchInitial
  /\ UNCHANGED <<teams, teamLimit>>
  /\ UNCHANGED timerVars
  /\ markDirty

\* Mutation of summaryOf: the summary is built after the reset.
summaryLate ==
  [category |-> Null, earnings |-> EmptyMap, pot |-> 0, roundsPlayed |-> 1,
   carryOverUnused |-> 0, timestamp |-> now]

\* summary (2302-2311), built from the state as the handler finds it.
summaryOf ==
  [category |-> currentCategory, earnings |-> categoryEarnings,
   pot |-> categoryPot, roundsPlayed |-> roundIndex + 1,
   carryOverUnused |-> carryRound, timestamp |-> now]

\* game.adminFinishCategory: the summary is broadcast, then the state reset.
adminFinishCategory ==
  /\ summaryWire' = {summaryOf}
  /\ wire' = {}
  /\ toLobby

\* game.adminGotoLobby: the same reset, no summary.
adminGotoLobby == toLobby /\ Silent

\* game.adminResetAll: the registry is emptied; roundWins, categoryEarnings,
\* resolvedRounds, pendingResult, lastResult, teamLimit and lastTimerEnd are
\* not touched, and the new state.elch has neither a phase nor a
\* buzzAnswerEndsAt field.
adminResetAll ==
  /\ phase' = "LOBBY"
  /\ currentCategory' = Null
  /\ roundIndex' = 0
  /\ stakes' = EmptyMap
  /\ categoryPot' = 0
  /\ carryRound' = 0
  /\ teams' = EmptyMap
  /\ submissions' = EmptyMap
  /\ timerEndsAt' = {}
  /\ timerDuration' = 0
  /\ timerPausedRemaining' = 0
  /\ elch' = [elchInitial EXCEPT !.phase = Undef]
  /\ UNCHANGED <<teamLimit, roundWins, categoryEarnings, resolvedRounds,
                 pendingResult, lastResult, lastTimerEnd>>
  /\ markDirty

(***************************************************************************)
(* Submissions and the buzzer (gameState.js 1894-1971).                    *)
(***************************************************************************)
\* The grace check of teamSubmit (1899-1907): the timer was started, is not
\* running and has an expiry marker older than GRACE_MS.
GRACE_MS == 300
ELCH_ANSWER_WINDOW_MS == 45000

droppedLate ==
  /\ timerDuration > 0
  /\ timerEndsAt = {}
  /\ lastTimerEnd # {}
  /\ \E e \in lastTimerEnd : now - e > GRACE_MS

InOrder(id) == \E i \in 1..Len(elch.buzzOrder) : elch.buzzOrder[i] = id

\* The buzz path (1910-1937): the buzz is appended when the buzzer is not
\* locked and the team is not in buzzOrder yet; the list having exactly one
\* entry then locks the buzzer, and the answer window is set only when
\* none is recorded.
buzzed(id) ==
  IF elch.category = Null \/ elch.buzzLocked \/ InOrder(id) THEN elch
  ELSE LET order == Append(elch.buzzOrder, id)
       IN IF Len(order) = 1
          THEN [elch EXCEPT !.buzzOrder = order, !.buzzLocked = TRUE, !.phase = "LOCK",
                            !.buzzAnswerEndsAt =
                               IF @ = {} THEN {now + ELCH_ANSWER_WINDOW_MS} ELSE @]
          ELSE [elch EXCEPT !.buzzOrder = order]

\* game.teamSubmit(category, payload): buzz says whether payload.buzz is
\* set.  A stored answer is represented by its ts; the sender need not be a
\* registered team.
teamSubmit(id, category, buzz) ==
  IF phase # "CATEGORY" \/ currentCategory # category \/ droppedLate
  THEN Returned
  ELSE IF category = "Elch" /\ buzz
  THEN /\ elch' = buzzed(id)
       /\ UNCHANGED <<registryVars, ledgerVars, boardVars, timerVars>>
       /\ Unsaved
  ELSE /\ submissions' = Put(submissions, id, now)
       /\ UNCHANGED <<registryVars, ledgerVars, timerVars, elchVars>>
       /\ markDirty

(***************************************************************************)
(* Timer (gameState.js 2363-2403) and its expiry tick (2648-2663).         *)
(***************************************************************************)
TIMER_MIN_SEC == 1
TIMER_MAX_SEC == 999

\* Math.ceil(a / 1000) for an integer a of either sign.
CeilSec(a) == IF a >= 0 THEN (a + 999) \div 1000 ELSE -((-a) \div 1000)

\* Number(seconds) || 0.  A payload is {n} when Number(seconds) is the
\* integer n and {} when it is NaN (undefined, a non-numeric string), which
\* counts as 0.
NumberOr0(seconds) == IF seconds = {} THEN 0 ELSE CHOOSE n \in seconds : TRUE

\* Mutation of clampSeconds: the range [0, 1000].
clampWide(seconds) == Max(0, Min(TIMER_MAX_SEC + 1, NumberOr0(seconds)))

\* s (2364).
clampSeconds(seconds) == Max(TIMER_MIN_SEC, Min(TIMER_MAX_SEC, NumberOr0(seconds)))

adminTimerStart(seconds) ==
  /\ timerDuration' = clampSeconds(seconds)
  /\ timerEndsAt' = {now + clampSeconds(seconds) * 1000}
  /\ timerPausedRemaining' = 0
  /\ lastTimerEnd' = {}
  /\ UNCHANGED <<registryVars, ledgerVars, boardVars, elchVars>>
  /\ markDirty

\* Mutation of remainingOf: no floor at 0.
remainingRaw(endsAt) == CeilSec(endsAt - now)

\* remaining (2377).
remainingOf(endsAt) == Max(0, CeilSec(endsAt - now))

adminTimerStop ==
  /\ timerPausedRemaining' = IF timerEndsAt = {} THEN timerPausedRemaining
                             ELSE remainingOf(CHOOSE e \in timerEndsAt : TRUE)
  /\ timerEndsAt' = {}
  /\ UNCHANGED <<timerDuration, lastTimerEnd>>
  /\ UNCHANGED <<registryVars, ledgerVars, boardVars, elchVars>>
  /\ markDirty

adminTimerReset ==
  /\ timerEndsAt' = {}
  /\ timerDuration' = 0
  /\ timerPausedRemaining' = 0
  /\ UNCHANGED lastTimerEnd
  /\ UNCHANGED <<registryVars, ledgerVars, boardVars, elchVars>>
  /\ markDirty

resumedAt == {now + Max(1, timerPausedRemaining) * 1000}

adminTimerResume ==
  IF timerEndsAt = {} /\ timerPausedRemaining > 0
  THEN /\ timerEndsAt' = resumedAt
       /\ timerPausedRemaining' = 0
       /\ UNCHANGED <<timerDuration, lastTimerEnd>>
       /\ UNCHANGED <<registryVars, ledgerVars, boardVars, elchVars>>
       /\ markDirty
  ELSE Returned

\* The 300 ms interval: a running timer whose end has come is cleared and
\* its end recorded as lastTimerEnd, in phase CATEGORY only.
timerExpired ==
  /\ phase = "CATEGORY"
  /\ timerEndsAt # {}
  /\ \E e \in timerEndsAt : now >= e

timerTick ==
  IF timerExpired
  THEN /\ lastTimerEnd' = timerEndsAt
       /\ timerEndsAt' = {}
       /\ UNCHANGED <<timerDuration, timerPausedRemaining>>
       /\ UNCHANGED <<registryVars, ledgerVars, boardVars, elchVars>>
       /\ Unsaved
  ELSE Returned

(***************************************************************************)
(* The buzzer's admin commands (gameState.js 2405-2486) and its            *)
(* auto-unlock tick (2666-2679).                                           *)
(***************************************************************************)
elchOnly(e) ==
  /\ elch' = (IF currentCategory = "Elch" THEN e ELSE elch)
  /\ UNCHANGED <<registryVars, ledgerVars, boardVars, timerVars>>
  /\ Unsaved

adminElchDraw ==
  elchOnly([elch EXCEPT !.category = fixedPrimary(roundIndex),
                        !.used = @ \cup {fixedPrimary(roundIndex)},
                        !.exhausted = FALSE, !.buzzOrder = <<>>,
                        !.buzzLocked = FALSE, !.phase = "BUZZ_READY",
                        !.buzzAnswerEndsAt = {}])

adminElchSetLock(locked) ==
  elchOnly([elch EXCEPT !.buzzLocked = locked,
                        !.phase = IF locked THEN "LOCK" ELSE @])

adminElchClearBuzz ==
  LET next == IF elch.category = fixedPrimary(roundIndex)
              THEN fixedFallback(roundIndex) ELSE fixedPrimary(roundIndex)
  IN elchOnly([elch EXCEPT !.buzzOrder = <<>>, !.buzzLocked = FALSE,
                           !.category = next, !.used = @ \cup {next},
                           !.exhausted = FALSE, !.phase = "BUZZ_READY",
                           !.buzzAnswerEndsAt = {}])

adminElchUnlock ==
  elchOnly(IF elch.exhausted THEN elch
           ELSE [elch EXCEPT !.buzzOrder = <<>>, !.buzzLocked = FALSE,
                             !.phase = "BUZZ_READY", !.buzzAnswerEndsAt = {}])

\* game.adminElchConfirm({teamId}): the given team when it is registered,
\* else the first buzzer; the buzzer is locked and the round resolved for
\* that team.
confirmWinner(teamId) ==
  IF teamId # Null /\ Has(teams, teamId) THEN teamId
  ELSE IF Len(elch.buzzOrder) > 0 THEN elch.buzzOrder[1] ELSE Null

adminElchConfirm(teamId) ==
  IF \/ currentCategory # "Elch" \/ phase # "CATEGORY" \/ isRoundResolved
     \/ confirmWinner(teamId) = Null \/ ~Has(teams, confirmWinner(teamId))
  THEN Returned /\ Silent
  ELSE /\ elch' = [elch EXCEPT !.buzzAnswerEndsAt = {}, !.phase = "LOCK",
                               !.buzzLocked = TRUE]
       /\ resolveRoundLedger(confirmWinner(teamId), {})
       /\ UNCHANGED <<boardVars, timerVars>>

\* The 1000 ms interval: the answer window is strictly in the past and the
\* round is not resolved.
\* Mutation of unlockDue: the interval unlocks at the very end of the
\* window already.
unlockEarly ==
  /\ phase = "CATEGORY"
  /\ currentCategory = "Elch"
  /\ elch.buzzAnswerEndsAt # {}
  /\ \E e \in elch.buzzAnswerEndsAt : now + 1 > e
  /\ ~isRoundResolved

\* The condition of the interval (2666-2669).
unlockDue ==
  /\ phase = "CATEGORY"
  /\ currentCategory = "Elch"
  /\ elch.buzzAnswerEndsAt # {}
  /\ \E e \in elch.buzzAnswerEndsAt : now > e
  /\ ~isRoundResolved

elchTick ==
  IF unlockDue
  THEN /\ elch' = [elch EXCEPT !.buzzLocked = FALSE, !.phase = "BUZZ_READY",
                               !.buzzOrder = <<>>, !.buzzAnswerEndsAt = {}]
       /\ UNCHANGED <<registryVars, ledgerVars, boardVars, timerVars>>
       /\ Unsaved
  ELSE Returned

(***************************************************************************)
(* Persistence (gameState.js 1723-1809): the snapshot written to disk and  *)
(* the start-up that reads it back.                                        *)
(***************************************************************************)
\* The state object as the module builds it (1604-1645).
initialState ==
  [phase |-> "LOBBY", currentCategory |-> Null, roundIndex |-> 0,
   stakes |-> EmptyMap, categoryPot |-> 0, carryRound |-> 0,
   submissions |-> EmptyMap, teamLimit |-> DEFAULT_TEAM_LIMIT,
   timerEndsAt |-> {}, timerDuration |-> 0, timerPausedRemaining |-> 0,
   lastTimerEnd |-> {}, elch |-> elchInitial, roundWins |-> EmptyMap,
   resolvedRounds |-> {}, categoryEarnings |-> EmptyMap,
   pendingResult |-> {}, lastResult |-> {}]

\* snapshotState(): serializeState() without serverNow.
snapshotState ==
  [phase |-> phase, currentCategory |-> currentCategory, roundIndex |-> roundIndex,
   roundResolved |-> isRoundResolved, stakes |-> stakes, categoryPot |-> categoryPot,
   carryRound |-> carryRound, submissions |-> submissions, teamLimit |-> teamLimit,
   timerEndsAt |-> timerEndsAt, timerDuration |-> timerDuration,
   timerPausedRemaining |-> timerPausedRemaining, elch |-> elch]

\* snapshotTeams(): every team record.
snapshotTeams == teams

\* loadPersisted(): every key of the state object that the file has is
\* taken from the file; the others keep their initial value.
loadPersisted(raw) ==
  [k \in DOMAIN initialState |-> IF k \in DOMAIN raw THEN raw[k] ELSE initialState[k]]

\* The callback of markDirty's setTimeout (1752-1756), 600 ms after the
\* call that scheduled it: both files are written from the state as it is
\* then.
persistWrite ==
  /\ saveTmo
  /\ disk' = {[state |-> snapshotState, teams |-> snapshotTeams]}
  /\ saveTmo' = FALSE
  /\ UNCHANGED gameVars

\* flushPersistSync() on a signal, process exit, and the next start-up.
restart ==
  LET loaded == loadPersisted(snapshotState)
  IN /\ disk' = {[state |-> snapshotState, teams |-> snapshotTeams]}
     /\ saveTmo' = FALSE
     /\ teams' = snapshotTeams
     /\ phase' = loaded.phase
     /\ currentCategory' = loaded.currentCategory
     /\ roundIndex' = loaded.roundIndex
     /\ stakes' = loaded.stakes
     /\ categoryPot' = loaded.categoryPot
     /\ carryRound' = loaded.carryRound
     /\ submissions' = loaded.submissions
     /\ teamLimit' = loaded.teamLimit
     /\ timerEndsAt' = loaded.timerEndsAt
     /\ timerDuration' = loaded.timerDuration
     /\ timerPausedRemaining' = loaded.timerPausedRemaining
     /\ lastTimerEnd' = loaded.lastTimerEnd
     /\ elch' = loaded.elch
     /\ roundWins' = loaded.roundWins
     /\ resolvedRounds' = loaded.resolvedRounds
     /\ categoryEarnings' = loaded.categoryEarnings
     /\ pendingResult' = loaded.pendingResult
     /\ lastResult' = loaded.lastResult
     /\ recentActions' = EmptyMap
     /\ lastPurge' = 0

(***************************************************************************)
(* Socket routing (gameState.js 2545-2640): one handler per command.  A    *)
(* guarded handler asks isDuplicateAction first and returns on a duplicate.*)
(***************************************************************************)
Guarded(actionId, op) ==
  /\ isDuplicateAction(actionId)
  /\ IF DupAnswer(actionId) THEN Returned ELSE op

Unguarded(op) == op /\ UNCHANGED guardVars

Other == lastCmd' = [op |-> "other"]

\* The second listener of admin:round:next, admin:round:prev and
\* admin:category:finish (2602, 2604, 2606) empties state.submissions
\* whatever the first listener did; this is all that happens when the first
\* one returned early.
SubmissionsCleared ==
  /\ submissions' = EmptyMap
  /\ UNCHANGED <<registryVars, ledgerVars, timerVars, elchVars>>
  /\ Unsaved

OnJoin(id) == Unguarded(teamJoin(id)) /\ Other /\ Silent

OnSetStake(actionId, id, stake, useJoker) ==
  /\ Guarded(actionId, teamSetStake(id, stake, useJoker))
  /\ lastCmd' = [op |-> "setStake", actionId |-> actionId, id |-> id,
                 stake |-> stake, useJoker |-> useJoker,
                 dup |-> DupAnswer(actionId),
                 stored |-> (phase = "STAKE" /\ Has(teams, id) /\ ~DupAnswer(actionId))]
  /\ Silent

OnTeamUpdate(id, coinPatch, jokerPatch) ==
  Unguarded(adminTeamUpdate(id, coinPatch, jokerPatch)) /\ Other /\ Silent

OnTeamKick(actionId, id) == Guarded(actionId, adminTeamKick(id)) /\ Other /\ Silent

OnStartCategory(category) == Unguarded(adminStartCategory(category)) /\ Other /\ Silent

OnSetTeamLimit(actionId, limit) ==
  Guarded(actionId, adminSetTeamLimit(limit)) /\ Other /\ Silent

OnLockStakes(actionId) == Guarded(actionId, adminLockStakes) /\ Other /\ Silent

\* admin:round:resolve.  lastCmd keeps the tallies as the command found
\* them and whether it resolved the round (it then broadcast the result).
OnResolveRound(actionId, winnerId, winnerIds) ==
  /\ isDuplicateAction(actionId)
  /\ IF DupAnswer(actionId) THEN Returned /\ Silent
     ELSE adminResolveRound(winnerId, winnerIds)
  /\ lastCmd' = [op |-> "resolveRound", roundWins |-> roundWins,
                 categoryEarnings |-> categoryEarnings, applied |-> (wire' # {})]

OnRoundEnd(actionId) ==
  /\ isDuplicateAction(actionId)
  /\ IF DupAnswer(actionId) THEN Returned /\ Silent ELSE adminRoundEnd
  /\ Other

OnRoundUndo(actionId, snapshot) ==
  /\ Guarded(actionId, adminRoundUndo(snapshot))
  /\ lastCmd' = [op |-> "roundUndo", actionId |-> actionId, snapshot |-> snapshot,
                 applied |-> (phase = "CATEGORY" /\ isRoundResolved /\ ~DupAnswer(actionId))]
  /\ Silent

OnRoundNext(actionId) ==
  /\ isDuplicateAction(actionId)
  /\ IF DupAnswer(actionId) \/ phase # "CATEGORY" THEN SubmissionsCleared
     ELSE adminRoundNext
  /\ Other
  /\ Silent

OnRoundPrev(actionId) ==
  /\ isDuplicateAction(actionId)
  /\ IF DupAnswer(actionId) \/ phase # "CATEGORY" THEN SubmissionsCleared
     ELSE adminRoundPrev
  /\ Other
  /\ Silent

OnFinishCategory(actionId) ==
  /\ isDuplicateAction(actionId)
  /\ IF DupAnswer(actionId) THEN SubmissionsCleared /\ Silent ELSE adminFinishCategory
  /\ lastCmd' = [op |-> "finishCategory", dup |-> DupAnswer(actionId)]

OnGotoLobby == Unguarded(adminGotoLobby) /\ lastCmd' = [op |-> "gotoLobby"]

OnResetAll(actionId) == Guarded(actionId, adminResetAll) /\ Other /\ Silent

\* team:<category>:submit (2559-2570).
OnSubmit(actionId, id, category) ==
  /\ Guarded(actionId, teamSubmit(id, category, FALSE))
  /\ lastCmd' = [op |-> "submit", id |-> id]
  /\ Silent

\* team:elch:buzz (2568): the guard's key is the socket's id followed by
\* ':elchBuzz'; each team keeps one socket.
buzzKey(id) == id \o ":elchBuzz"

OnBuzz(id) ==
  /\ Guarded(buzzKey(id), teamSubmit(id, "Elch", TRUE))
  /\ lastCmd' = [op |-> "buzz", id |-> id]
  /\ Silent

OnTimerStart(seconds) ==
  /\ Unguarded(adminTimerStart(seconds))
  /\ lastCmd' = [op |-> "timerStart", seconds |-> seconds]
  /\ Silent
OnTimerStop ==
  /\ Unguarded(adminTimerStop)
  /\ lastCmd' = [op |-> "timerStop", endsAt |-> timerEndsAt, phase |-> phase, at |-> now]
  /\ Silent
OnTimerReset == Unguarded(adminTimerReset) /\ lastCmd' = [op |-> "timerReset"] /\ Silent
OnTimerResume == Unguarded(adminTimerResume) /\ lastCmd' = [op |-> "timerResume"] /\ Silent

OnElchDraw == Unguarded(adminElchDraw) /\ Other /\ Silent
OnElchSetLock(locked) == Unguarded(adminElchSetLock(locked)) /\ Other /\ Silent
OnElchClearBuzz == Unguarded(adminElchClearBuzz) /\ Other /\ Silent
OnElchUnlock == Unguarded(adminElchUnlock) /\ Other /\ Silent

OnElchConfirm(actionId, teamId) ==
  /\ isDuplicateAction(actionId)
  /\ IF DupAnswer(actionId) THEN Returned /\ Silent
     ELSE adminElchConfirm(teamId)
  /\ Other

\* SIGINT, SIGTERM or SIGQUIT (1765-1773) followed by a new start of the
\* process.
OnRestart == restart /\ lastCmd' = [op |-> "restart"] /\ Silent

\* The two intervals.
OnTimerTick == Unguarded(timerTick) /\ lastCmd' = [op |-> "timerTick"] /\ Silent
OnElchTick ==
  /\ Unguarded(elchTick)
  /\ lastCmd' = [op |-> "elchTick", unlocked |-> unlockDue]
  /\ Silent

\* The debounce timeout fires.
OnPersistWrite ==
  /\ Unguarded(persistWrite)
  /\ lastCmd' = [op |-> "persistWrite"]
  /\ Silent

(***************************************************************************)
(* The environment: commands arrive one at a time at the current instant   *)
(* (the event loop is single-threaded); the clock advances between them.   *)
(***************************************************************************)
\* A command that leaves the balances as they are costs nothing.
NoCost == UNCHANGED <<now, spent, ticks>>

\* A command that may change balances is explored while the budget lasts
\* (Affordable) and counted when it changed the game state (Counted).
Affordable == spent < MaxSpent

Counted ==
  /\ spent' = IF gameVars' = gameVars THEN spent ELSE spent + 1
  /\ UNCHANGED <<now, ticks>>

\* Time passes by d milliseconds.
Advance(d) ==
  /\ ticks < MaxTicks
  /\ now' = now + d
  /\ ticks' = ticks + 1
  /\ UNCHANGED <<gameVars, persistVars, guardVars, wire, summaryWire, lastCmd, spent>>

(***************************************************************************)
(* Spec: the settlement commands.  Commands carry no actionId and the      *)
(* clock stands still; a team that stakes stakes 6 with its joker.         *)
(***************************************************************************)
\* category payloads of admin:category:start: a category, or none.
SettleCategories == {"Hase", Null}
\* <<stake, useJoker>> payloads of team:setStake.
SettleStakes == {<<6, TRUE>>}
\* <<winnerId, winnerIds>> payloads of admin:round:resolve: a winnerId alone
\* (a team, null, absent, an unknown id), a winnerIds set alone (one, two
\* or three teams, an unknown id), and both at once.
ResolveRequests ==
  {<<w, {}>> : w \in {"t1", "t3", Null, Undef, Ghost}}
  \cup {<<Undef, ws>> : ws \in {{"t2"}, {"t1", "t2"}, {"t1", "t2", "t3"}, {Ghost}}}
  \cup {<<Null, {"t2", "t3"}>>, <<Null, {"t1", Ghost}>>, <<"t3", {"t1"}>>, <<"t3", {"t1", "t2"}>>}
\* Snapshots of admin:round:undo: balances for some ids (negative ones and
\* an unknown id among them), with or without a carry.
SnapshotCoins ==
  {EmptyMap,
   [id \in {"t1", "t2"} |-> IF id = "t1" THEN 24 ELSE 18],
   [id \in {"t2", Ghost} |-> IF id = "t2" THEN -2 ELSE 5]}
SnapshotCarries == {{}, {4}, {-1}}
Snapshots == {[coins |-> m, carryRound |-> c] : m \in SnapshotCoins, c \in SnapshotCarries}
\* The snapshots offered among the settlement commands: an empty one and
\* one that lists two teams and a carry.
SettleSnapshots ==
  {s \in Snapshots : \/ (DOMAIN s.coins = {} /\ s.carryRound = {})
                      \/ (DOMAIN s.coins = {"t1", "t2"} /\ s.carryRound = {4})}

Join == \E id \in Ids : OnJoin(id) /\ NoCost
SetStake == \E id \in Ids, r \in SettleStakes :
              OnSetStake(NoAction, id, r[1], r[2]) /\ NoCost
TeamKick == \E id \in Ids : Affordable /\ OnTeamKick(NoAction, id) /\ Counted
StartCategory == \E category \in SettleCategories :
                   Affordable /\ OnStartCategory(category) /\ Counted
LockStakes == Affordable /\ OnLockStakes(NoAction) /\ Counted
ResolveRound == \E r \in ResolveRequests :
                  Affordable /\ OnResolveRound(NoAction, r[1], r[2]) /\ Counted
RoundEnd == OnRoundEnd(NoAction) /\ NoCost
RoundUndo == \E snapshot \in SettleSnapshots :
               Affordable /\ OnRoundUndo(NoAction, snapshot) /\ Counted
RoundNext == OnRoundNext(NoAction) /\ NoCost
RoundPrev == OnRoundPrev(NoAction) /\ NoCost
FinishCategory == OnFinishCategory(NoAction) /\ NoCost

Next ==
  \/ Join
  \/ SetStake
  \/ TeamKick
  \/ StartCategory
  \/ LockStakes
  \/ ResolveRound
  \/ RoundEnd
  \/ RoundUndo
  \/ RoundNext
  \/ RoundPrev
  \/ FinishCategory

Spec == Init /\ [][Next]_vars

(***************************************************************************)
(* SpecUndo: a round is resolved, undone with any of the snapshots, and    *)
(* resolved again.  Starting a category is not counted against the budget, *)
(* so that a resolution can follow the undo.                               *)
(***************************************************************************)
\* <<winnerId, winnerIds>> payloads: one winner, a tie, nobody.
UndoResolveRequests == {<<"t1", {}>>, <<Undef, {"t1", "t2"}>>, <<Null, {}>>}

\* The teams that play.
UndoIds == {"t1", "t2"}

UJoin == \E id \in UndoIds : OnJoin(id) /\ NoCost
USetStake == \E id \in UndoIds, r \in SettleStakes :
               OnSetStake(NoAction, id, r[1], r[2]) /\ NoCost
UStartCategory == OnStartCategory("Hase") /\ NoCost
ULockStakes == Affordable /\ OnLockStakes(NoAction) /\ Counted
UResolveRound == \E r \in UndoResolveRequests :
                   Affordable /\ OnResolveRound(NoAction, r[1], r[2]) /\ Counted
URoundUndo == \E snapshot \in Snapshots :
                Affordable /\ OnRoundUndo(NoAction, snapshot) /\ Counted
URoundNext == OnRoundNext(NoAction) /\ NoCost

NextUndo ==
  \/ UJoin
  \/ USetStake
  \/ UStartCategory
  \/ ULockStakes
  \/ UResolveRound
  \/ URoundUndo
  \/ URoundNext

SpecUndo == Init /\ [][NextUndo]_vars

(***************************************************************************)
(* SpecStake: the stake phase.  Team t1 stakes any of the offered amounts  *)
(* with or without its joker and t2 stakes a plain 3; the admin changes    *)
(* the team limit, patches t1's coins or jokers, and locks the stakes in   *)
(* whatever phase the game is in.                                          *)
(***************************************************************************)
StakeIds == {"t1", "t2"}
\* <<stake, useJoker>> payloads of t1: the amounts of the wide set, one
\* between them and one below 0, with and without the joker.
StakeRequests ==
  {<<0, TRUE>>, <<3, FALSE>>, <<6, TRUE>>, <<6, FALSE>>, <<9, TRUE>>, <<9, FALSE>>,
   <<4, TRUE>>, <<-3, FALSE>>}
\* limit payloads of admin:teamLimit:set.
LimitOffers == {2, 4}
\* <<coins patch, quizJoker patch>> payloads of admin:team:update.
TeamPatches == {<<{2}, {}>>, <<{}, {0}>>}

KJoin == \E id \in StakeIds : OnJoin(id) /\ NoCost
KSetStake == \/ \E r \in StakeRequests : OnSetStake(NoAction, "t1", r[1], r[2]) /\ NoCost
             \/ OnSetStake(NoAction, "t2", 3, FALSE) /\ NoCost
KTeamUpdate == \E patch \in TeamPatches :
                 Affordable /\ OnTeamUpdate("t1", patch[1], patch[2]) /\ Counted
KSetTeamLimit == \E limit \in LimitOffers : OnSetTeamLimit(NoAction, limit) /\ NoCost
KStartCategory == Affordable /\ OnStartCategory("Hase") /\ Counted
KLockStakes == Affordable /\ OnLockStakes(NoAction) /\ Counted
KGotoLobby == OnGotoLobby /\ NoCost

NextStake ==
  \/ KJoin
  \/ KSetStake
  \/ KTeamUpdate
  \/ KSetTeamLimit
  \/ KStartCategory
  \/ KLockStakes
  \/ KGotoLobby

SpecStake == Init /\ [][NextStake]_vars

(***************************************************************************)
(* SpecGuard: team:setStake commands that carry an actionId (or none)      *)
(* while the clock advances: by a millisecond, by the length of the        *)
(* idempotency window, and by a millisecond more than that.                *)
(***************************************************************************)
GuardActions == ActionIds \cup {NoAction}
GuardRequests == {<<3, FALSE>>, <<6, TRUE>>}
Delays == {1, IDEMP_WINDOW_MS, IDEMP_WINDOW_MS + 1}

GJoin == OnJoin("t1") /\ NoCost
GStartCategory == OnStartCategory("Hase") /\ NoCost
GSetStake == \E actionId \in GuardActions, r \in GuardRequests :
               OnSetStake(actionId, "t1", r[1], r[2]) /\ NoCost
GAdvance == \E d \in Delays : Advance(d)

NextGuard ==
  \/ GJoin
  \/ GStartCategory
  \/ GSetStake
  \/ GAdvance

SpecGuard == Init /\ [][NextGuard]_vars

(***************************************************************************)
(* SpecBuzz: the buzzer.  Two teams, the Elch category, buzzes, the admin's *)
(* unlock, setLock, confirm and kick, the auto-unlock interval and the     *)
(* passing of time around the answer window.                               *)
(***************************************************************************)
BuzzIds == {"t1", "t2"}
BuzzDelays == {1, ELCH_ANSWER_WINDOW_MS}
ConfirmOffers == {Null, "t2"}

BJoin == \E id \in BuzzIds : OnJoin(id) /\ NoCost
BStartCategory == OnStartCategory("Elch") /\ NoCost
BLockStakes == OnLockStakes(NoAction) /\ NoCost
BBuzz == \E id \in BuzzIds : Affordable /\ OnBuzz(id) /\ Counted
BElchUnlock == Affordable /\ OnElchUnlock /\ Counted
BElchSetLock == \E locked \in BOOLEAN : Affordable /\ OnElchSetLock(locked) /\ Counted
BElchConfirm == \E teamId \in ConfirmOffers :
  Affordable /\ OnElchConfirm(NoAction, teamId) /\ Counted
BTeamKick == Affordable /\ OnTeamKick(NoAction, "t1") /\ Counted
BElchTick == OnElchTick /\ NoCost
BAdvance == \E d \in BuzzDelays : Advance(d)

NextBuzz ==
  \/ BJoin
  \/ BStartCategory
  \/ BLockStakes
  \/ BBuzz
  \/ BElchUnlock
  \/ BElchSetLock
  \/ BElchConfirm
  \/ BTeamKick
  \/ BElchTick
  \/ BAdvance

SpecBuzz == Init /\ [][NextBuzz]_vars

\* The interval keeps firing: setInterval(..., 1000) is never cleared.
SpecTick == SpecBuzz /\ WF_vars(BElchTick)

(***************************************************************************)
(* SpecCrash: a game with a timer, interrupted by restarts of the process. *)
(***************************************************************************)
CrashDelays == {1000}
CrashSeconds == {{1}}

RJoin == OnJoin("t1") /\ NoCost
RSetStake == Affordable /\ OnSetStake(NoAction, "t1", 6, FALSE) /\ Counted
RStartCategory == Affordable /\ OnStartCategory("Hase") /\ Counted
RLockStakes == Affordable /\ OnLockStakes(NoAction) /\ Counted
RResolveRound == \E winnerId \in {"t1", Null} :
  Affordable /\ OnResolveRound(NoAction, winnerId, {}) /\ Counted
RSubmit == Affordable /\ OnSubmit(NoAction, "t1", "Hase") /\ Counted
RTimerStart == \E seconds \in CrashSeconds : Affordable /\ OnTimerStart(seconds) /\ Counted
RTimerTick == OnTimerTick /\ NoCost
RAdvance == \E d \in CrashDelays : Advance(d)
RRestart == OnRestart /\ NoCost

NextCrash ==
  \/ RJoin
  \/ RSetStake
  \/ RStartCategory
  \/ RLockStakes
  \/ RResolveRound
  \/ RSubmit
  \/ RTimerStart
  \/ RTimerTick
  \/ RAdvance
  \/ RRestart

SpecCrash == Init /\ [][NextCrash]_vars

(***************************************************************************)
(* SpecBalance: the commands that write a team's coins or quizJoker.       *)
(***************************************************************************)
\* <<coins patch, quizJoker patch>> payloads of admin:team:update.
BalancePatches == {<<{-5}, {}>>, <<{}, {-1}>>, <<{2}, {0}>>}
\* Snapshots of admin:round:undo for t1: a negative and a positive balance.
BalanceSnapshots == {[coins |-> [id \in {"t1"} |-> c], carryRound |-> {}] : c \in {-2, 30}}

LJoin == \E id \in {"t1", "t2"} : OnJoin(id) /\ NoCost
LSetStake == \E r \in {<<6, TRUE>>, <<9, FALSE>>} :
  OnSetStake(NoAction, "t1", r[1], r[2]) /\ NoCost
LStartCategory == Affordable /\ OnStartCategory("Hase") /\ Counted
LLockStakes == Affordable /\ OnLockStakes(NoAction) /\ Counted
LResolveRound == \E winnerId \in {"t1", Null} :
  Affordable /\ OnResolveRound(NoAction, winnerId, {}) /\ Counted
LRoundUndo == \E snapshot \in BalanceSnapshots :
  Affordable /\ OnRoundUndo(NoAction, snapshot) /\ Counted
LTeamUpdate == \E patch \in BalancePatches :
  Affordable /\ OnTeamUpdate("t1", patch[1], patch[2]) /\ Counted

NextBalance ==
  \/ LJoin
  \/ LSetStake
  \/ LStartCategory
  \/ LLockStakes
  \/ LResolveRound
  \/ LRoundUndo
  \/ LTeamUpdate

SpecBalance == Init /\ [][NextBalance]_vars

(***************************************************************************)
(* SpecPot: three teams staking 9 each (categoryPot 30) and an undo that   *)
(* restores a carry of 5.                                                  *)
(***************************************************************************)
PotIds == {"t1", "t2", "t3"}
PotWinners == {"t1", "t2", Null}
PotSnapshots == {[coins |-> EmptyMap, carryRound |-> {5}]}

PJoin == \E id \in PotIds : OnJoin(id) /\ NoCost
PSetStake == \E id \in PotIds : OnSetStake(NoAction, id, 9, FALSE) /\ NoCost
PStartCategory == OnStartCategory("Hase") /\ NoCost
PLockStakes == Affordable /\ OnLockStakes(NoAction) /\ Counted
PResolveRound == \E winnerId \in PotWinners :
  Affordable /\ OnResolveRound(NoAction, winnerId, {}) /\ Counted
PRoundUndo == \E snapshot \in PotSnapshots :
  Affordable /\ OnRoundUndo(NoAction, snapshot) /\ Counted
PRoundNext == Affordable /\ OnRoundNext(NoAction) /\ Counted

NextPot ==
  \/ PJoin
  \/ PSetStake
  \/ PStartCategory
  \/ PLockStakes
  \/ PResolveRound
  \/ PRoundUndo
  \/ PRoundNext

SpecPot == Init /\ [][NextPot]_vars

(***************************************************************************)
(* SpecTimer: the countdown, its expiry interval and submissions around    *)
(* the grace window, in a category without stakes.                         *)
(***************************************************************************)
\* seconds payloads of admin:timer:start: in range, zero, negative, not a
\* number, too large.
TimerSeconds == {{1}, {2}, {0}, {-5}, {}, {1000}}
TimerDelays == {GRACE_MS, GRACE_MS + 1, 1000, 2000}

TStartCategory == OnStartCategory("Hase") /\ NoCost
TLockStakes == OnLockStakes(NoAction) /\ NoCost
TTimerStart == \E seconds \in TimerSeconds : Affordable /\ OnTimerStart(seconds) /\ Counted
TTimerStop == Affordable /\ OnTimerStop /\ Counted
TTimerReset == Affordable /\ OnTimerReset /\ Counted
TTimerResume == Affordable /\ OnTimerResume /\ Counted
TSubmit == Affordable /\ OnSubmit(NoAction, "t1", "Hase") /\ Counted
TTimerTick == OnTimerTick /\ NoCost
TAdvance == \E d \in TimerDelays : Advance(d)

NextTimer ==
  \/ TStartCategory
  \/ TLockStakes
  \/ TTimerStart
  \/ TTimerStop
  \/ TTimerReset
  \/ TTimerResume
  \/ TSubmit
  \/ TTimerTick
  \/ TAdvance

SpecTimer == Init /\ [][NextTimer]_vars

(***************************************************************************)
(* SpecSave: the debounced write.  One team in the Elch category: buzzes,  *)
(* the buzzer's admin commands and its auto-unlock, a countdown and its    *)
(* expiry, and the write that markDirty schedules.                         *)
(***************************************************************************)
SaveDelays == {ELCH_ANSWER_WINDOW_MS + 1}

SJoin == OnJoin("t1") /\ NoCost
SStartCategory == OnStartCategory("Elch") /\ NoCost
SLockStakes == OnLockStakes(NoAction) /\ NoCost
SBuzz == Affordable /\ OnBuzz("t1") /\ Counted
SElchDraw == Affordable /\ OnElchDraw /\ Counted
SElchSetLock == \E locked \in BOOLEAN : Affordable /\ OnElchSetLock(locked) /\ Counted
SElchClearBuzz == Affordable /\ OnElchClearBuzz /\ Counted
SElchUnlock == Affordable /\ OnElchUnlock /\ Counted
SElchTick == OnElchTick /\ NoCost
STimerStart == Affordable /\ OnTimerStart({1}) /\ Counted
STimerTick == OnTimerTick /\ NoCost
SAdvance == \E d \in SaveDelays : Advance(d)
SPersistWrite == OnPersistWrite /\ NoCost

NextSave ==
  \/ SJoin
  \/ SStartCategory
  \/ SLockStakes
  \/ SBuzz
  \/ SElchDraw
  \/ SElchSetLock
  \/ SElchClearBuzz
  \/ SElchUnlock
  \/ SElchTick
  \/ STimerStart
  \/ STimerTick
  \/ SAdvance
  \/ SPersistWrite

SpecSave == Init /\ [][NextSave]_vars

(***************************************************************************)
(* SpecReset: a game with stakes, a resolved round and an expired          *)
(* countdown, reset by admin:reset:all in whatever phase it is in.         *)
(***************************************************************************)
ResetDelays == {1000}

XJoin == \E id \in {"t1", "t2"} : OnJoin(id) /\ NoCost
XSetStake == OnSetStake(NoAction, "t1", 6, TRUE) /\ NoCost
XStartCategory == Affordable /\ OnStartCategory("Hase") /\ Counted
XLockStakes == Affordable /\ OnLockStakes(NoAction) /\ Counted
XResolveRound == \E winnerId \in {"t1", Null} :
  Affordable /\ OnResolveRound(NoAction, winnerId, {}) /\ Counted
XSubmit == OnSubmit(NoAction, "t2", "Hase") /\ NoCost
XTimerStart == OnTimerStart({1}) /\ NoCost
XTimerTick == OnTimerTick /\ NoCost
XAdvance == \E d \in ResetDelays : Advance(d)
XResetAll == OnResetAll(NoAction) /\ NoCost

NextReset ==
  \/ XJoin
  \/ XSetStake
  \/ XStartCategory
  \/ XLockStakes
  \/ XResolveRound
  \/ XSubmit
  \/ XTimerStart
  \/ XTimerTick
  \/ XAdvance
  \/ XResetAll

SpecReset == Init /\ [][NextReset]_vars

(***************************************************************************)
(* SpecLobby: rounds and the end of a category.  Two teams play a category *)
(* with stakes, resolutions and submissions; the admin moves between the   *)
(* rounds, finishes the category or aborts to the lobby in whatever phase  *)
(* the game is in.                                                         *)
(***************************************************************************)
LobbyIds == {"t1", "t2"}
LobbyActions == {NoAction, "a1"}

EJoin == \E id \in LobbyIds : OnJoin(id) /\ NoCost
ESetStake == OnSetStake(NoAction, "t1", 6, TRUE) /\ NoCost
EStartCategory == Affordable /\ OnStartCategory("Hase") /\ Counted
ELockStakes == Affordable /\ OnLockStakes(NoAction) /\ Counted
EResolveRound == \E winnerId \in {"t1", Null} :
  Affordable /\ OnResolveRound(NoAction, winnerId, {}) /\ Counted
ERoundNext == OnRoundNext(NoAction) /\ NoCost
ERoundPrev == OnRoundPrev(NoAction) /\ NoCost
ESubmit == OnSubmit(NoAction, "t2", "Hase") /\ NoCost
EFinishCategory == \E actionId \in LobbyActions : OnFinishCategory(actionId) /\ NoCost
EGotoLobby == OnGotoLobby /\ NoCost

NextLobby ==
  \/ EJoin
  \/ ESetStake
  \/ EStartCategory
  \/ ELockStakes
  \/ EResolveRound
  \/ ERoundNext
  \/ ERoundPrev
  \/ ESubmit
  \/ EFinishCategory
  \/ EGotoLobby

SpecLobby == Init /\ [][NextLobby]_vars

(***************************************************************************)
(* SpecDraw: the labels of the buzzer.  One team in the Elch category; the *)
(* admin moves between the rounds (each move picks a label), draws, clears *)
(* the buzzes, unlocks and locks.                                          *)
(***************************************************************************)
DJoin == OnJoin("t1") /\ NoCost
DStartCategory == OnStartCategory("Elch") /\ NoCost
DLockStakes == OnLockStakes(NoAction) /\ NoCost
DRoundNext == OnRoundNext(NoAction) /\ NoCost
DRoundPrev == OnRoundPrev(NoAction) /\ NoCost
DBuzz == Affordable /\ OnBuzz("t1") /\ Counted
DElchDraw == Affordable /\ OnElchDraw /\ Counted
DElchClearBuzz == Affordable /\ OnElchClearBuzz /\ Counted
DElchUnlock == Affordable /\ OnElchUnlock /\ Counted
DElchSetLock == Affordable /\ OnElchSetLock(TRUE) /\ Counted

NextDraw ==
  \/ DJoin
  \/ DStartCategory
  \/ DLockStakes
  \/ DRoundNext
  \/ DRoundPrev
  \/ DBuzz
  \/ DElchDraw
  \/ DElchClearBuzz
  \/ DElchUnlock
  \/ DElchSetLock

SpecDraw == Init /\ [][NextDraw]_vars

(***************************************************************************)
(* SpecReplay: commands delivered twice.  Every guarded admin command      *)
(* carries an actionId of its own, so an id found in the guard's map was   *)
(* put there by an earlier delivery of the same command.  One team stakes  *)
(* and submits in between; the clock moves by one second.                  *)
(***************************************************************************)
ReplayDelays == {1000}
ReplaySnapshots == {[coins |-> EmptyMap, carryRound |-> {}]}

\* A delivery is counted when it changed the game state or the guard's map.
Logged ==
  /\ spent' = IF gameVars' = gameVars /\ guardVars' = guardVars THEN spent
              ELSE spent + 1
  /\ UNCHANGED <<now, ticks>>

YJoin == OnJoin("t1") /\ NoCost
YSetStake == Affordable /\ OnSetStake(NoAction, "t1", 6, TRUE) /\ Counted
YStartCategory == Affordable /\ OnStartCategory("Hase") /\ Counted
YSubmit == OnSubmit(NoAction, "t1", "Hase") /\ NoCost
YLockStakes == Affordable /\ OnLockStakes("lock") /\ Logged
YResolveRound == Affordable /\ OnResolveRound("resolve", "t1", {}) /\ Logged
YRoundEnd == Affordable /\ OnRoundEnd("end") /\ Logged
YRoundUndo == \E snapshot \in ReplaySnapshots :
  Affordable /\ OnRoundUndo("undo", snapshot) /\ Logged
YRoundNext == Affordable /\ OnRoundNext("next") /\ Logged
YRoundPrev == Affordable /\ OnRoundPrev("prev") /\ Logged
YFinishCategory == Affordable /\ OnFinishCategory("finish") /\ Logged
YTeamKick == Affordable /\ OnTeamKick("kick", "t1") /\ Logged
YResetAll == Affordable /\ OnResetAll("reset") /\ Logged
YAdvance == \E d \in ReplayDelays : Advance(d)

NextReplay ==
  \/ YJoin
  \/ YSetStake
  \/ YStartCategory
  \/ YSubmit
  \/ YLockStakes
  \/ YResolveRound
  \/ YRoundEnd
  \/ YRoundUndo
  \/ YRoundNext
  \/ YRoundPrev
  \/ YFinishCategory
  \/ YTeamKick
  \/ YResetAll
  \/ YAdvance

SpecReplay == Init /\ [][NextReplay]_vars

(***************************************************************************)
(* SpecWager: stakes against a small balance.  Between categories the      *)
(* admin sets t1's balance to 4; in the stake phase t1 stakes 3 or 6, with *)
(* or without its joker, t2 stakes a plain 3, and the stakes are locked.   *)
(***************************************************************************)
WagerRequests == {<<3, TRUE>>, <<6, FALSE>>, <<6, TRUE>>}
WagerPatches == {<<{4}, {}>>}

WJoin == \E id \in {"t1", "t2"} : OnJoin(id) /\ NoCost
WTeamUpdate == \E patch \in WagerPatches :
  phase = "LOBBY" /\ Affordable /\ OnTeamUpdate("t1", patch[1], patch[2]) /\ Counted
WStartCategory == Affordable /\ OnStartCategory("Hase") /\ Counted
WSetStake == \/ \E r \in WagerRequests : OnSetStake(NoAction, "t1", r[1], r[2]) /\ NoCost
             \/ OnSetStake(NoAction, "t2", 3, FALSE) /\ NoCost
WLockStakes == phase = "STAKE" /\ Affordable /\ OnLockStakes(NoAction) /\ Counted
WGotoLobby == OnGotoLobby /\ NoCost

NextWager ==
  \/ WJoin
  \/ WTeamUpdate
  \/ WStartCategory
  \/ WSetStake
  \/ WLockStakes
  \/ WGotoLobby

SpecWager == Init /\ [][NextWager]_vars

(***************************************************************************)
(* SpecStale: answer windows across a change of context.  One team buzzes  *)
(* in the Elch category; the admin moves between the rounds, finishes or   *)
(* leaves the category and starts it again, while the answer window runs   *)
(* out and the auto-unlock interval fires.                                 *)
(***************************************************************************)
StaleDelays == {ELCH_ANSWER_WINDOW_MS + 1}

ZJoin == OnJoin("t1") /\ NoCost
ZStartCategory == Affordable /\ OnStartCategory("Elch") /\ Counted
ZLockStakes == Affordable /\ OnLockStakes(NoAction) /\ Counted
ZBuzz == Affordable /\ OnBuzz("t1") /\ Counted
ZRoundNext == OnRoundNext(NoAction) /\ NoCost
ZRoundPrev == OnRoundPrev(NoAction) /\ NoCost
ZFinishCategory == OnFinishCategory(NoAction) /\ NoCost
ZGotoLobby == OnGotoLobby /\ NoCost
ZElchTick == OnElchTick /\ NoCost
ZAdvance == \E d \in StaleDelays : Advance(d)

NextStale ==
  \/ ZJoin
  \/ ZStartCategory
  \/ ZLockStakes
  \/ ZBuzz
  \/ ZRoundNext
  \/ ZRoundPrev
  \/ ZFinishCategory
  \/ ZGotoLobby
  \/ ZElchTick
  \/ ZAdvance

SpecStale == Init /\ [][NextStale]_vars

(***************************************************************************)
(* SpecPay: the payouts of one category.  Two teams, no stakes (the pot is *)
(* the base of 3); after the lock in the stake phase the admin resolves    *)
(* rounds with one winner, two or none, announces results and moves        *)
(* between the rounds until the category is finished.                      *)
(***************************************************************************)
PayRequests == {<<"t1", {}>>, <<Null, {}>>, <<Undef, {"t1", "t2"}>>}

VJoin == \E id \in {"t1", "t2"} : OnJoin(id) /\ NoCost
VStartCategory == OnStartCategory("Hase") /\ NoCost
VLockStakes == phase = "STAKE" /\ OnLockStakes(NoAction) /\ NoCost
VResolveRound == \E r \in PayRequests :
  Affordable /\ OnResolveRound(NoAction, r[1], r[2]) /\ Counted
VRoundEnd == OnRoundEnd(NoAction) /\ NoCost
VRoundNext == OnRoundNext(NoAction) /\ NoCost
VRoundPrev == OnRoundPrev(NoAction) /\ NoCost
VFinishCategory == OnFinishCategory(NoAction) /\ NoCost

NextPay ==
  \/ VJoin
  \/ VStartCategory
  \/ VLockStakes
  \/ VResolveRound
  \/ VRoundEnd
  \/ VRoundNext
  \/ VRoundPrev
  \/ VFinishCategory

SpecPay == Init /\ [][NextPay]_vars

(***************************************************************************)
(* SpecPending: the life of a pending result.  One team; the stakes are    *)
(* locked in the stake phase, rounds are resolved, announced, undone and   *)
(* left, and the admin starts a category again or resets the game while a  *)
(* result is waiting.                                                      *)
(***************************************************************************)
PendingSnapshots == {[coins |-> EmptyMap, carryRound |-> {}]}

NJoin == OnJoin("t1") /\ NoCost
NStartCategory == Affordable /\ OnStartCategory("Hase") /\ Counted
NLockStakes == phase = "STAKE" /\ OnLockStakes(NoAction) /\ NoCost
NResolveRound == \E winnerId \in {"t1", Null} :
  Affordable /\ OnResolveRound(NoAction, winnerId, {}) /\ Counted
NRoundEnd == OnRoundEnd(NoAction) /\ NoCost
NRoundUndo == \E snapshot \in PendingSnapshots :
  Affordable /\ OnRoundUndo(NoAction, snapshot) /\ Counted
NRoundNext == OnRoundNext(NoAction) /\ NoCost
NRoundPrev == OnRoundPrev(NoAction) /\ NoCost
NGotoLobby == OnGotoLobby /\ NoCost
NResetAll == OnResetAll(NoAction) /\ NoCost

NextPending ==
  \/ NJoin
  \/ NStartCategory
  \/ NLockStakes
  \/ NResolveRound
  \/ NRoundEnd
  \/ NRoundUndo
  \/ NRoundNext
  \/ NRoundPrev
  \/ NGotoLobby
  \/ NResetAll

SpecPending == Init /\ [][NextPending]_vars

(***************************************************************************)
(* SpecRoster: who may answer.  The connection of t1 joins or not and is   *)
(* kicked; in a quiz category it submits an answer, in the Elch category   *)
(* it buzzes; the admin unlocks the buzzer.                                *)
(***************************************************************************)
RosterCategories == {"Hase", "Elch"}

JJoin == OnJoin("t1") /\ NoCost
JTeamKick == OnTeamKick(NoAction, "t1") /\ NoCost
JStartCategory == \E category \in RosterCategories :
  Affordable /\ OnStartCategory(category) /\ Counted
JLockStakes == phase = "STAKE" /\ OnLockStakes(NoAction) /\ NoCost
JSubmit == OnSubmit(NoAction, "t1", "Hase") /\ NoCost
JBuzz == OnBuzz("t1") /\ NoCost
JElchUnlock == OnElchUnlock /\ NoCost
JAdvance == \E d \in {1000} : Advance(d)

NextRoster ==
  \/ JJoin
  \/ JTeamKick
  \/ JStartCategory
  \/ JLockStakes
  \/ JSubmit
  \/ JBuzz
  \/ JElchUnlock
  \/ JAdvance

SpecRoster == Init /\ [][NextRoster]_vars

(***************************************************************************)
(* Properties.  They are stated on the state and the payloads alone: the   *)
(* round is "marked" when its key is in resolvedRounds, a payload's         *)
(* registered winners are the ids it names that are in the registry.       *)
(***************************************************************************)
RoundMarked == <<currentCategory, roundIndex>> \in resolvedRounds

Registered(ids) == {id \in ids : id \in DOMAIN teams}

ResolveStep(winnerId, winnerIds) == OnResolveRound(NoAction, winnerId, winnerIds)

UndoStep(snapshot) == OnRoundUndo(NoAction, snapshot)

BalancesKept(ids) == \A id \in ids : teams'[id].coins = teams[id].coins

\* The last successful resolution was of the current round, and a winner
\* it credited still holds the win: it was neither undone nor navigated
\* away from, and no category was started since.
ResolvedHere ==
  \E r \in lastResult :
    /\ r.category = currentCategory
    /\ r.roundIndex = roundIndex
    /\ \E id \in r.winnerIds : id \in DOMAIN roundWins /\ roundWins[id] >= 1

\* C1: once resolveRound has succeeded for the current round, a further
\* resolveRound in phase CATEGORY, with any winners, changes no balance,
\* carryRound, win counter, earnings tally or pendingResult.
C1_ResolveIdempotent ==
  [][(phase = "CATEGORY" /\ ResolvedHere
        /\ \E r \in ResolveRequests : ResolveStep(r[1], r[2]))
     => UNCHANGED <<teams, carryRound, roundWins, categoryEarnings, pendingResult>>]_vars

\* C2: resolveRound naming exactly one registered winner, on an unresolved
\* round in phase CATEGORY, credits that team floor(categoryPot / 3) +
\* carryRound, leaves every other balance unchanged and sets carryRound to 0.
C2_SingleWinner ==
  [][(phase = "CATEGORY" /\ ~RoundMarked) =>
       \A r \in ResolveRequests :
         (Cardinality(Registered(r[2] \cup {r[1]})) = 1 /\ ResolveStep(r[1], r[2]))
         => \A t \in Registered(r[2] \cup {r[1]}) :
              /\ teams'[t].coins = teams[t].coins + (categoryPot \div 3) + carryRound
              /\ BalancesKept(DOMAIN teams \ {t})
              /\ carryRound' = 0]_vars

\* C2's case: a single winner was paid a payout of at least 5 together
\* with a carry, and the carry is back at 0.
C2_Witness ==
  \E r \in pendingResult :
    /\ r.winnerId # Null
    /\ r.roundIndex = roundIndex
    /\ r.payout >= 5
    /\ carryRound = 0
    /\ r.winnerId \in DOMAIN categoryEarnings
    /\ categoryEarnings[r.winnerId] > r.payout

\* C3: resolveRound with n >= 2 registered winners in winnerIds credits
\* each of them floor(totalPot / n), totalPot = floor(categoryPot / 3) +
\* carryRound, and nobody else; the remainder is added to carryRound when
\* roundIndex < 2 and goes nowhere (carryRound stays) when roundIndex = 2.
C3_TieSplit ==
  [][(phase = "CATEGORY" /\ ~RoundMarked) =>
       \A r \in ResolveRequests :
         LET W == Registered(r[2])
             n == Cardinality(W)
             totalPot == (categoryPot \div 3) + carryRound
             share == totalPot \div n
         IN (n >= 2 /\ ResolveStep(r[1], r[2]))
            => /\ \A id \in W : teams'[id].coins = teams[id].coins + share
               /\ BalancesKept(DOMAIN teams \ W)
               /\ carryRound' = IF roundIndex < 2
                                THEN carryRound + (totalPot - share * n)
                                ELSE carryRound]_vars

\* C3's case: three tied winners were paid a share of at least 1 each and
\* a remainder was carried.
C3_Witness ==
  \E r \in pendingResult :
    /\ Cardinality(r.winnerIds) = 3
    /\ \A id \in r.winnerIds : r.tiePayouts[id] >= 1
    /\ r.roundIndex = roundIndex
    /\ r.roundIndex < 2
    /\ r.carry > 0
    /\ carryRound = r.carry

\* C4: resolveRound with winnerId = null and no registered id in winnerIds,
\* on an unresolved round in phase CATEGORY, marks the round resolved,
\* changes no balance and adds floor(categoryPot / 3) to carryRound.
C4_NoWinner ==
  [][(phase = "CATEGORY" /\ ~RoundMarked) =>
       \A r \in ResolveRequests :
         (r[1] = Null /\ Registered(r[2]) = {} /\ ResolveStep(r[1], r[2]))
         => /\ RoundMarked'
            /\ BalancesKept(DOMAIN teams)
            /\ carryRound' = carryRound + (categoryPot \div 3)]_vars

\* C10 as stated: undoRound on a resolved current round sets every listed
\* registered team's balance to exactly the snapshot value and carryRound
\* to the snapshot carry, clears pendingResult and un-marks the round.
C10_UndoExact ==
  [][\A s \in Snapshots :
       (phase = "CATEGORY" /\ RoundMarked /\ UndoStep(s))
       => /\ \A id \in Registered(DOMAIN s.coins) : teams'[id].coins = s.coins[id]
          /\ \A c \in s.carryRound : carryRound' = c
          /\ pendingResult' = {}
          /\ ~RoundMarked']_vars

\* C10 amended: the balances and the carry are set to the snapshot values
\* floored at 0 (so exactly to every value >= 0), pendingResult is cleared
\* and the round un-marked; a resolveRound that follows the undo and names
\* one registered winner pays that team floor(categoryPot / 3) + carryRound.
C10_UndoClamped ==
  [][/\ \A s \in Snapshots :
          (phase = "CATEGORY" /\ RoundMarked /\ UndoStep(s))
          => /\ \A id \in Registered(DOMAIN s.coins) :
                  teams'[id].coins = IF s.coins[id] >= 0 THEN s.coins[id] ELSE 0
             /\ BalancesKept(DOMAIN teams \ DOMAIN s.coins)
             /\ \A c \in s.carryRound : carryRound' = IF c >= 0 THEN c ELSE 0
             /\ pendingResult' = {}
             /\ ~RoundMarked'
     /\ \A r \in ResolveRequests : \A t \in Ids :
          (/\ lastCmd.op = "roundUndo"
           /\ lastCmd.applied
           /\ Registered(r[2] \cup {r[1]}) = {t}
           /\ ResolveStep(r[1], r[2]))
          => teams'[t].coins = teams[t].coins + (categoryPot \div 3) + carryRound]_vars

\* C10's case: an undo was applied whose snapshot lists two registered
\* teams and a carry, and the state holds the snapshot's values.
C10_Witness ==
  /\ lastCmd.op = "roundUndo"
  /\ lastCmd.applied
  /\ lastCmd.snapshot.carryRound = {4}
  /\ DOMAIN lastCmd.snapshot.coins = {"t1", "t2"}
  /\ {"t1", "t2"} \subseteq DOMAIN teams
  /\ \A id \in {"t1", "t2"} : teams[id].coins = lastCmd.snapshot.coins[id]
  /\ carryRound = 4
  /\ pendingResult = {}
  /\ ~RoundMarked

(***************************************************************************)
(* Properties of the stake phase.                                          *)
(***************************************************************************)
LockStep == OnLockStakes(NoAction)

SetStakeStep(id, stake, useJoker) ==
  lastCmd'.op = "setStake" /\ OnSetStake(NoAction, id, stake, useJoker)

\* The stake entries whose team is registered.
Stakers == {id \in DOMAIN stakes : id \in DOMAIN teams}

\* C5: lockStakes in phase STAKE sets categoryPot to the sum of the stake
\* amounts plus the sum of the amounts staked with the joker plus 3, sets
\* each staking team's balance to max(0, balance - amount), sets the joker
\* count of every team whose joker was applied to 0 (and no other team's),
\* and moves the phase to CATEGORY.
C5_LockStakes ==
  [][(phase = "STAKE" /\ LockStep) =>
       /\ categoryPot' =
            SumOver([id \in DOMAIN stakes |-> stakes[id].stake], DOMAIN stakes)
            + SumOver([id \in DOMAIN stakes |->
                         IF stakes[id].useJoker THEN stakes[id].stake ELSE 0],
                      DOMAIN stakes)
            + 3
       /\ \A id \in Stakers :
            /\ teams'[id].coins = IF teams[id].coins - stakes[id].stake >= 0
                                  THEN teams[id].coins - stakes[id].stake ELSE 0
            /\ teams'[id].quizJoker = IF stakes[id].useJoker THEN 0
                                      ELSE teams[id].quizJoker
       /\ \A id \in DOMAIN teams \ Stakers : teams'[id] = teams[id]
       /\ phase' = "CATEGORY"]_vars

\* C5's case: t1 staked 6 with its joker, t2 staked 3 without, and the
\* stakes were locked once: the pot is 6 + 3 + 6 + 3 = 18.
C5_Witness ==
  /\ phase = "CATEGORY"
  /\ DOMAIN stakes = {"t1", "t2"}
  /\ stakes["t1"] = [stake |-> 6, useJoker |-> TRUE]
  /\ stakes["t2"] = [stake |-> 3, useJoker |-> FALSE]
  /\ categoryPot = 18
  /\ teams["t1"] = [coins |-> 18, quizJoker |-> 0]
  /\ teams["t2"] = [coins |-> 21, quizJoker |-> 1]

\* C6: lockStakes in a phase other than STAKE leaves phase, categoryPot and
\* every team's balance and joker count unchanged.
C6_LockOutsideStake ==
  [][(phase # "STAKE" /\ LockStep) => UNCHANGED <<phase, categoryPot, teams>>]_vars

\* The allowed stake set of C7 for a team limit.
Allowed(limit) == IF limit <= 2 THEN {0, 3, 6} ELSE {0, 3, 6, 9}

\* C7: setStake in phase STAKE by a registered team stores 0 for every
\* requested amount outside the allowed set ({0,3,6} for a team limit of
\* at most 2, {0,3,6,9} above), and stores an allowed amount the team can
\* afford unchanged.
C7_AllowedStakes ==
  [][phase = "STAKE" =>
       \A id \in StakeIds, r \in StakeRequests :
         LET stake == r[1]
             useJoker == r[2]
         IN
         (id \in DOMAIN teams /\ SetStakeStep(id, stake, useJoker))
         => /\ stake \notin Allowed(teamLimit) => stakes'[id].stake = 0
            /\ (stake \in Allowed(teamLimit) /\ stake <= teams[id].coins)
                 => stakes'[id].stake = stake]_vars

\* C7's case: with a team limit of 2 a team asked for 9 and 0 was stored.
C7_Witness ==
  /\ lastCmd.op = "setStake"
  /\ lastCmd.stored
  /\ lastCmd.stake = 9
  /\ teamLimit = 2
  /\ teams[lastCmd.id].coins >= 9
  /\ stakes[lastCmd.id].stake = 0

\* C8: setStake stores 0 whenever the team's balance is below 3; the joker
\* is stored as applied exactly when it was asked for, the stored amount is
\* above 0 and the team holds at least one joker, and as not applied in
\* every other case.
C8_PoorOrJokerless ==
  [][phase = "STAKE" =>
       \A id \in StakeIds, r \in StakeRequests :
         LET stake == r[1]
             useJoker == r[2]
         IN
         (id \in DOMAIN teams /\ SetStakeStep(id, stake, useJoker))
         => /\ teams[id].coins < 3 => stakes'[id].stake = 0
            /\ stakes'[id].useJoker =
                 (useJoker /\ stakes'[id].stake > 0 /\ teams[id].quizJoker >= 1)]_vars

\* C8's case: a team without a joker but with coins asked for 6 with the
\* joker: 6 was stored, the joker was not.
C8_Witness ==
  /\ lastCmd.op = "setStake"
  /\ lastCmd.stored
  /\ lastCmd.stake = 6
  /\ lastCmd.useJoker
  /\ teams[lastCmd.id].quizJoker = 0
  /\ stakes[lastCmd.id] = [stake |-> 6, useJoker |-> FALSE]


(***************************************************************************)
(* Properties of the idempotency guard.                                    *)
(***************************************************************************)
\* C9: a setStake command whose actionId was already carried by a command
\* that arrived at most 10 s earlier is dropped: it is answered as a
\* duplicate and the stored stakes stay as they were, whatever amount it
\* carries.
C9_DuplicateDropped ==
  [][\A a \in ActionIds, r \in GuardRequests :
       (/\ a \in DOMAIN recentActions
        /\ now - recentActions[a] <= 10000
        /\ OnSetStake(a, "t1", r[1], r[2]))
       => /\ lastCmd'.dup
          /\ ~lastCmd'.stored
          /\ UNCHANGED gameVars]_vars

\* C9's case: in phase STAKE a second setStake carried a1 exactly 10 s
\* after the first, at an instant when the guard purged its map, with an
\* amount other than the stored one, and was dropped.
C9_Witness ==
  /\ lastCmd.op = "setStake"
  /\ lastCmd.actionId = "a1"
  /\ lastCmd.dup
  /\ phase = "STAKE"
  /\ "a1" \in DOMAIN recentActions
  /\ now - recentActions["a1"] = 10000
  /\ lastPurge = now
  /\ "t1" \in DOMAIN stakes
  /\ stakes["t1"].stake # lastCmd.stake


(***************************************************************************)
(* The buzzer race, checked under SpecBuzz.                                *)
(***************************************************************************)
\* The step handles the command or interval op (time passes in steps of
\* their own, which handle nothing).
Handled(op) == now' = now /\ lastCmd'.op = op

\* The step is the command team:elch:buzz of team id.
BuzzStep(id) == Handled("buzz") /\ lastCmd'.id = id

\* A label is drawn and the buzzer is open, in the Elch category.
ActiveDraw ==
  /\ phase = "CATEGORY"
  /\ currentCategory = "Elch"
  /\ elch.category # Null
  /\ ~elch.buzzLocked

\* The buzzer as the first accepted buzz of team id leaves it.
lockedBy(id) ==
  [elch EXCEPT !.buzzOrder = Append(@, id), !.buzzLocked = TRUE, !.phase = "LOCK",
               !.buzzAnswerEndsAt = {now + ELCH_ANSWER_WINDOW_MS}]

\* C11: a buzz of a registered team that has not buzzed on the active,
\* unlocked draw is accepted: the team enters buzzOrder, the buzzer is
\* locked, its phase is LOCK and the answer window ends ELCH_ANSWER_WINDOW_MS
\* from now; a buzz of another team while the buzzer is locked leaves
\* buzzOrder as it is.
C11_BuzzerRace ==
  [][\A id \in BuzzIds :
       BuzzStep(id) /\ Has(teams, id) /\ ~InOrder(id) =>
         /\ ActiveDraw => elch' = lockedBy(id)
         /\ (phase = "CATEGORY" /\ currentCategory = "Elch" /\ elch.buzzLocked)
              => elch'.buzzOrder = elch.buzzOrder]_vars

(***************************************************************************)
(* The auto-unlock, checked under SpecTick.                                *)
(***************************************************************************)
\* The buzzer is open again: no lock, no buzz, no answer window.
Reopened ==
  /\ ~elch.buzzLocked
  /\ elch.buzzOrder = <<>>
  /\ elch.buzzAnswerEndsAt = {}

WindowPassed == \E e \in elch.buzzAnswerEndsAt : now > e

\* C12: the interval changes the buzzer only when the answer window is
\* strictly in the past and the current round is not resolved, and it then
\* leaves the buzzer reopened; and with the interval firing again and again,
\* a buzzer of the running Elch round whose answer window has passed is
\* eventually reopened, unless the round gets resolved.
C12_AutoUnlock ==
  /\ [][Handled("elchTick") /\ elch' # elch =>
          /\ WindowPassed
          /\ ~isRoundResolved
          /\ Reopened']_vars
  /\ (unlockDue ~> (Reopened \/ isRoundResolved))

\* The interval has just reopened a buzzer that a buzz had locked.
C12_Witness ==
  /\ lastCmd.op = "elchTick"
  /\ lastCmd.unlocked
  /\ Reopened
  /\ elch.phase = "BUZZ_READY"
  /\ \E id \in BuzzIds : Has(recentActions, buzzKey(id))

(***************************************************************************)
(* Resolve, then announce: checked under Spec.                             *)
(***************************************************************************)
RoundEndStep == OnRoundEnd(NoAction)

\* C13: resolveRound broadcasts no result:announce, and announceResult
\* broadcasts nothing but the pending record, which it clears when it
\* broadcasts it (so a second announceResult broadcasts nothing).
C13_ResolveSilent ==
  [][/\ \A r \in ResolveRequests : ResolveStep(r[1], r[2]) => wire' = {}
     /\ RoundEndStep => /\ wire' \subseteq pendingResult
                        /\ wire' # {} => pendingResult' = {}]_vars

(***************************************************************************)
(* Crash recovery, checked under SpecCrash.                                *)
(***************************************************************************)
RestartStep == Handled("restart")

\* C14: a restart (snapshot written, process started from it) leaves the
\* team registry and every field of the game state as they were,
\* resolvedRounds, pendingResult, lastResult, roundWins, categoryEarnings
\* and lastTimerEnd included.
C14_RestartRoundTrip == [][RestartStep => gameVars' = gameVars]_vars

(***************************************************************************)
(* Balances, checked under SpecBalance.                                    *)
(***************************************************************************)
\* C15: every registered team has coins >= 0 and quizJoker >= 0.
C15_NonNegative ==
  \A id \in DOMAIN teams : teams[id].coins >= 0 /\ teams[id].quizJoker >= 0

(***************************************************************************)
(* The pot of a category, checked under Spec.                              *)
(***************************************************************************)
\* C16: while the game stays in phase CATEGORY (no startCategory, no return
\* to the lobby) no command changes categoryPot.
C16_PotFixed ==
  [][phase = "CATEGORY" /\ phase' = "CATEGORY" => categoryPot' = categoryPot]_vars

(***************************************************************************)
(* The worked example of a single winner, checked under SpecPot.           *)
(***************************************************************************)
\* resolveRound for the registered team id acts on an unresolved round of
\* phase CATEGORY with categoryPot = 30 and carryRound = 5.
ExampleStep(id) ==
  /\ phase = "CATEGORY"
  /\ ~isRoundResolved
  /\ categoryPot = 30
  /\ carryRound = 5
  /\ Has(teams, id)
  /\ ResolveStep(id, {})

\* C17 as stated: the winner is credited 15 + 5 = 20.
C17_Credit20 ==
  [][\A id \in PotIds : ExampleStep(id) => teams'[id].coins = teams[id].coins + 20]_vars

\* C17 as the code has it: with categoryPot = 30 and carryRound = 5 the
\* single winner is credited floor(30 / 3) + 5 = 15, and carryRound is 0
\* afterwards.
C17_Credit15 ==
  [][\A id \in PotIds :
       ExampleStep(id) => /\ teams'[id].coins = teams[id].coins + 15
                          /\ carryRound' = 0]_vars

\* t1 has won a round of a category with pot 30 whose record shows a payout
\* of 10, and has earned 15 by it.
C17_Witness ==
  /\ categoryPot = 30
  /\ isRoundResolved
  /\ \E r \in pendingResult : r.winnerId = "t1" /\ r.payout = 10 /\ r.carry = 0
  /\ GetOr0(roundWins, "t1") = 1
  /\ GetOr0(categoryEarnings, "t1") = 15

(***************************************************************************)
(* The countdown, checked under SpecTimer.                                 *)
(***************************************************************************)
StopStep == Handled("timerStop")
ResumeStep == Handled("timerResume")

\* What resume does when it is effective, and nothing otherwise.
ResumeRule ==
  ResumeStep =>
    IF timerEndsAt = {} /\ timerPausedRemaining > 0
    THEN /\ timerEndsAt' = {now + timerPausedRemaining * 1000}
         /\ timerDuration' = timerDuration
         /\ timerPausedRemaining' = 0
    ELSE UNCHANGED timerVars

\* C18 as stated: stop of a set timer records ceil((endsAt - now) / 1000)
\* and clears endsAt; resume follows ResumeRule.
C18_StopExact ==
  [][/\ StopStep =>
          \A e \in timerEndsAt : /\ timerPausedRemaining' = CeilSec(e - now)
                                 /\ timerEndsAt' = {}
     /\ ResumeRule]_vars

\* C18 as the code has it: stop of a set timer records
\* max(0, ceil((endsAt - now) / 1000)), which is 0 once endsAt is a second
\* or more in the past, and clears endsAt; the recorded seconds exceed the
\* time that was left by less than a second; resume follows ResumeRule.
C18_StopClamped ==
  [][/\ StopStep =>
          \A e \in timerEndsAt :
            /\ timerPausedRemaining' = Max(0, CeilSec(e - now))
            /\ timerEndsAt' = {}
            /\ timerDuration' = timerDuration
            /\ e > now => /\ timerPausedRemaining' * 1000 >= e - now
                          /\ timerPausedRemaining' * 1000 < e - now + 1000
     /\ ResumeRule]_vars

\* A timer that was stopped with time left has been resumed.
C18_Witness ==
  /\ lastCmd.op = "timerResume"
  /\ timerEndsAt # {}
  /\ \E e \in timerEndsAt : e > now /\ e < now + timerDuration * 1000
  /\ timerPausedRemaining = 0

StartStep == Handled("timerStart")

\* The duration the spec gives for a payload: the number itself within
\* [1, 999], 1 below it or for no number, 999 above it.
Clamped(seconds) ==
  IF seconds = {} THEN 1
  ELSE LET n == CHOOSE x \in seconds : TRUE
       IN IF n < 1 THEN 1 ELSE IF n > 999 THEN 999 ELSE n

\* C19: timer start sets the duration to the payload clamped to [1, 999],
\* endsAt to now + duration * 1000, and clears timerPausedRemaining and
\* lastTimerEnd; timerPausedRemaining is never negative.
C19_StartClamps ==
  /\ [][StartStep =>
          /\ timerDuration' = Clamped(lastCmd'.seconds)
          /\ timerDuration' \in 1..999
          /\ timerEndsAt' = {now + timerDuration' * 1000}
          /\ timerPausedRemaining' = 0
          /\ lastTimerEnd' = {}]_vars
  /\ [](timerPausedRemaining >= 0)

\* A start with 1000 seconds has set a countdown of 999.
C19_Witness ==
  /\ lastCmd.op = "timerStart"
  /\ lastCmd.seconds = {1000}
  /\ timerDuration = 999
  /\ timerEndsAt = {now + 999000}

(***************************************************************************)
(* The grace window, checked under SpecTimer.                              *)
(***************************************************************************)
\* A submission of the running category is handled.
SubmitStep ==
  /\ Handled("submit")
  /\ phase = "CATEGORY"
  /\ currentCategory = "Hase"

\* The expiry interval has recorded the end of the countdown, more than
\* GRACE_MS ago, and the timer was neither started again nor reset.
ExpiredLongAgo ==
  /\ timerDuration > 0
  /\ timerEndsAt = {}
  /\ \E e \in lastTimerEnd : now - e > GRACE_MS

\* The last command was a stop in phase CATEGORY of a countdown whose end
\* had passed, and that end is more than GRACE_MS ago.
StoppedAfterEnd ==
  /\ lastCmd.op = "timerStop"
  /\ lastCmd.phase = "CATEGORY"
  /\ \E e \in lastCmd.endsAt : e <= lastCmd.at /\ now - e > GRACE_MS

\* C20: a submission more than GRACE_MS after the end of the countdown
\* leaves submissions unchanged, whether the expiry interval recorded the
\* end or the admin stopped the timer after the end, before the interval
\* fired.
C20_GraceDrop ==
  [][SubmitStep /\ (ExpiredLongAgo \/ StoppedAfterEnd) => submissions' = submissions]_vars

(***************************************************************************)
(* The end of the idempotency window, checked under SpecGuard.             *)
(***************************************************************************)
\* C21: a setStake of the registered team t1 in phase STAKE whose actionId
\* was first seen more than 10 s ago is not answered as a duplicate: it is
\* applied and its amount stored.
C21_WindowExpiry ==
  [][\A a \in ActionIds, r \in GuardRequests :
       (/\ a \in DOMAIN recentActions
        /\ now - recentActions[a] > IDEMP_WINDOW_MS
        /\ phase = "STAKE"
        /\ Has(teams, "t1")
        /\ now' = now
        /\ OnSetStake(a, "t1", r[1], r[2]))
       => /\ ~lastCmd'.dup
          /\ lastCmd'.stored
          /\ stakes'["t1"].stake = r[1]]_vars

(***************************************************************************)
(* The debounced write, checked under SpecSave.                            *)
(***************************************************************************)
\* The step is a command or an interval that changed the game state or the
\* team registry.
Mutation == now' = now /\ gameVars' # gameVars

\* C22: after every command or interval that changed the game state or the
\* team registry (buzz, the buzzer's draw, setLock, clearBuzz, unlock and
\* auto-unlock, and the timer's expiry among them) a write is pending.
C22_WriteScheduled == [][Mutation => saveTmo']_vars

(***************************************************************************)
(* The full reset, checked under SpecReset.                                *)
(***************************************************************************)
ResetStep == now' = now /\ OnResetAll(NoAction)

\* C23: fullReset, in any phase, empties the team registry and leaves phase
\* LOBBY, no category, roundIndex 0, empty stakes and submissions,
\* categoryPot 0, carryRound 0, no resolved round, no pendingResult, empty
\* roundWins and categoryEarnings, a cleared timer (lastTimerEnd included)
\* and a buzzer without label, used labels, buzzes, lock, exhaustion or
\* answer window.
C23_FullReset ==
  [][ResetStep =>
       /\ teams' = EmptyMap
       /\ phase' = "LOBBY"
       /\ currentCategory' = Null
       /\ roundIndex' = 0
       /\ stakes' = EmptyMap
       /\ submissions' = EmptyMap
       /\ categoryPot' = 0
       /\ carryRound' = 0
       /\ resolvedRounds' = {}
       /\ pendingResult' = {}
       /\ roundWins' = EmptyMap
       /\ categoryEarnings' = EmptyMap
       /\ timerEndsAt' = {}
       /\ timerDuration' = 0
       /\ timerPausedRemaining' = 0
       /\ lastTimerEnd' = {}
       /\ elch'.category = Null
       /\ elch'.used = {}
       /\ elch'.buzzOrder = <<>>
       /\ ~elch'.buzzLocked
       /\ ~elch'.exhausted
       /\ elch'.buzzAnswerEndsAt = {}]_vars

(***************************************************************************)
(* The end of a category, checked under SpecLobby.                         *)
(***************************************************************************)
FinishStep == Handled("finishCategory") /\ ~lastCmd'.dup
LobbyStep == Handled("gotoLobby")

\* Phase LOBBY with category, round, stakes, pot, carry, submissions and
\* tallies cleared.
CategoryCleared ==
  /\ phase = "LOBBY"
  /\ currentCategory = Null
  /\ roundIndex = 0
  /\ stakes = EmptyMap
  /\ categoryPot = 0
  /\ carryRound = 0
  /\ submissions = EmptyMap
  /\ roundWins = EmptyMap
  /\ categoryEarnings = EmptyMap
  /\ resolvedRounds = {}
  /\ pendingResult = {}

\* C24: finishCategory broadcasts exactly one category:summary, which
\* carries the earnings tally as it was before the reset, and leaves the
\* category cleared in phase LOBBY; gotoLobby, in any phase, leaves the
\* category cleared the same way and broadcasts no category:summary.
C24_FinishSummary ==
  [][/\ FinishStep => /\ Cardinality(summaryWire') = 1
                      /\ \A e \in summaryWire' : e.earnings = categoryEarnings
                      /\ CategoryCleared'
     /\ LobbyStep => /\ summaryWire' = {}
                     /\ CategoryCleared']_vars

\* A category in which t1 has earned coins was finished: the summary shows
\* t1's earnings, and the tally is empty.
C24_Witness ==
  /\ lastCmd.op = "finishCategory"
  /\ \E e \in summaryWire : /\ e.category = "Hase"
                            /\ Has(e.earnings, "t1")
                            /\ e.earnings["t1"] > 0
  /\ CategoryCleared

(***************************************************************************)
(* Round navigation, checked under SpecLobby.                              *)
(***************************************************************************)
NextStep == now' = now /\ OnRoundNext(NoAction)
PrevStep == now' = now /\ OnRoundPrev(NoAction)

\* What both commands leave behind in phase CATEGORY.
RoundFresh ==
  /\ submissions = EmptyMap
  /\ pendingResult = {}
  /\ ~isRoundResolved

UndoAfterResolve(s) ==
  /\ lastCmd.op = "resolveRound"
  /\ lastCmd.applied
  /\ phase = "CATEGORY"
  /\ isRoundResolved
  /\ now' = now
  /\ UndoStep(s)

\* C26: an undo that follows the resolution of the round directly leaves
\* every team's win counter and earnings tally as the resolution found
\* them, whoever won and whatever carryRound was.
C26_UndoTallies ==
  [][\A s \in Snapshots :
       UndoAfterResolve(s) =>
         \A id \in DOMAIN teams :
           /\ GetOr0(roundWins', id) = GetOr0(lastCmd.roundWins, id)
           /\ GetOr0(categoryEarnings', id) = GetOr0(lastCmd.categoryEarnings, id)]_vars

(***************************************************************************)
(* Undo is not a stack: checked under SpecUndo.                            *)
(***************************************************************************)
\* C27: an undo in a phase other than CATEGORY or on a round that is not
\* resolved changes no balance, carryRound or tally; an undo that was
\* applied leaves the round unresolved; and the current round gets resolved
\* by nothing but a resolveRound that succeeds.  So a second undo, with any
\* snapshot, changes nothing unless a resolveRound came in between.
C27_UndoOnce ==
  [][/\ \A s \in Snapshots :
          (now' = now /\ UndoStep(s)) =>
            /\ (phase # "CATEGORY" \/ ~isRoundResolved)
                 => UNCHANGED <<teams, carryRound, roundWins, categoryEarnings>>
            /\ lastCmd'.applied => ~isRoundResolved'
     /\ (~isRoundResolved /\ isRoundResolved')
          => (lastCmd'.op = "resolveRound" /\ lastCmd'.applied)]_vars

\* A first undo has restored a carry of 4, and a second one, whose snapshot
\* asks for other balances and another carry, was handled and changed
\* nothing.
C27_Witness ==
  /\ lastCmd.op = "roundUndo"
  /\ ~lastCmd.applied
  /\ lastCmd.snapshot.carryRound = {-1}
  /\ DOMAIN lastCmd.snapshot.coins = {"t1", "t2"}
  /\ phase = "CATEGORY"
  /\ currentCategory = "Hase"
  /\ ~isRoundResolved
  /\ carryRound = 4
  /\ Has(teams, "t2")
  /\ teams["t2"].coins # lastCmd.snapshot.coins["t2"]

(***************************************************************************)
(* The labels of the buzzer, checked under SpecDraw.                       *)
(***************************************************************************)
\* Both labels of round roundIdx have been used in this game.
BothUsed(roundIdx) ==
  {fixedPrimary(roundIdx), fixedFallback(roundIdx)} \subseteq elch.used

\* The step is a round change in the running Elch category.
ElchNavStep ==
  /\ phase = "CATEGORY"
  /\ currentCategory = "Elch"
  /\ now' = now
  /\ OnRoundNext(NoAction) \/ OnRoundPrev(NoAction)

DrawStep == now' = now /\ OnElchDraw

\* No label is active and the buzzer is marked exhausted.
Exhausted == elch.exhausted /\ elch.category = Null

\* C28: a round change that arrives at a round whose two labels are both
\* used leaves the buzzer exhausted with no active label, and a draw on a
\* round whose two labels are both used activates no label and leaves the
\* buzzer exhausted.
C28_DrawExhausted ==
  [][/\ (ElchNavStep /\ BothUsed(roundIndex')) => Exhausted'
     /\ (DrawStep /\ currentCategory = "Elch" /\ Exhausted /\ BothUsed(roundIndex))
          => Exhausted']_vars

ClearStep == now' = now /\ OnElchClearBuzz
UnlockStep == now' = now /\ OnElchUnlock

\* The buzzer is open for a new attempt.
BuzzReady ==
  /\ elch.buzzOrder = <<>>
  /\ ~elch.buzzLocked
  /\ elch.buzzAnswerEndsAt = {}
  /\ elch.phase = "BUZZ_READY"

\* The other label of the current round.
Alternate ==
  IF elch.category = fixedPrimary(roundIndex) THEN fixedFallback(roundIndex)
  ELSE fixedPrimary(roundIndex)

\* C29: in the Elch category clearBuzz and unlock both leave the buzzer
\* with no buzz, no lock, no answer window and in BUZZ_READY; unlock keeps
\* the active label; clearBuzz activates the round's other label when that
\* label has not been used, and keeps the active label when it has.
C29_ClearAndUnlock ==
  [][currentCategory = "Elch" =>
       /\ UnlockStep => (BuzzReady' /\ elch'.category = elch.category)
       /\ ClearStep =>
            /\ BuzzReady'
            /\ elch'.category = (IF Alternate \in elch.used THEN elch.category
                                 ELSE Alternate)]_vars

\* An id the guard holds that is no older than the window.
InWindow(actionId) ==
  /\ Has(recentActions, actionId)
  /\ now - recentActions[actionId] <= IDEMP_WINDOW_MS

\* A guarded admin command delivered again with its id still in the window.
DuplicateDelivery ==
  /\ now' = now
  /\ \/ InWindow("lock") /\ OnLockStakes("lock")
     \/ InWindow("resolve") /\ OnResolveRound("resolve", "t1", {})
     \/ InWindow("end") /\ OnRoundEnd("end")
     \/ InWindow("undo") /\ \E snapshot \in ReplaySnapshots : OnRoundUndo("undo", snapshot)
     \/ InWindow("next") /\ OnRoundNext("next")
     \/ InWindow("prev") /\ OnRoundPrev("prev")
     \/ InWindow("finish") /\ OnFinishCategory("finish")
     \/ InWindow("kick") /\ OnTeamKick("kick", "t1")
     \/ InWindow("reset") /\ OnResetAll("reset")

\* C30: a guarded admin command (lockStakes, resolveRound, announceResult,
\* undoRound, nextRound, prevRound, finishCategory, team kick, fullReset)
\* delivered a second time with the same actionId within the window leaves
\* the game state, submissions included, and the team registry unchanged.
C30_DuplicateIgnored == [][DuplicateDelivery => UNCHANGED gameVars]_vars

\* The buzzer is open on an active draw and nobody has buzzed: the state a
\* start, an unlock, a clearBuzz or the auto-unlock leaves.
OpenDraw == ActiveDraw /\ elch.buzzOrder = <<>>

\* C31: on an open draw without a buzz, as unlock, clearBuzz or the
\* auto-unlock leave it, the buzz of any registered team, the team that
\* buzzed before the re-opening included and however recently it buzzed, is
\* accepted and locks the buzzer.
C31_ReopenAcceptsAll ==
  [][\A id \in BuzzIds :
       BuzzStep(id) /\ Has(teams, id) /\ OpenDraw =>
         (elch'.buzzOrder = <<id>> /\ elch'.buzzLocked)]_vars

\* All tokens the teams hold.
TotalCoins == SumOver([id \in DOMAIN teams |-> teams[id].coins], DOMAIN teams)

\* A resolveRound that resolved the round.
ResolvedStep ==
  /\ \E r \in ResolveRequests : ResolveStep(r[1], r[2])
  /\ lastCmd'.applied

\* C32: a successful resolveRound in a round before the last (roundIndex <
\* 2) conserves the round's tokens: what the winners are credited plus
\* carryRound after it equals floor(categoryPot / 3) plus carryRound before.
C32_RoundConserved ==
  [][(ResolvedStep /\ roundIndex < ROUNDS_PER_CATEGORY - 1) =>
       (TotalCoins' - TotalCoins) + carryRound'
         = (categoryPot \div ROUNDS_PER_CATEGORY) + carryRound]_vars

\* C33: when lockStakes runs in the stake phase, every stored stake of a
\* registered team is at most the team's balance, so the team is debited
\* exactly the amount its stake adds to categoryPot.
C33_StakeCovered ==
  [][(phase = "STAKE" /\ LockStep) =>
       \A id \in Stakers :
         /\ stakes[id].stake <= teams[id].coins
         /\ teams[id].coins - teams'[id].coins = stakes[id].stake]_vars

\* A command that changes the context of the buzzer: a round change in
\* phase CATEGORY, the start or the end of a category, the way to the lobby.
ContextStep ==
  /\ now' = now
  /\ \/ phase = "CATEGORY" /\ (OnRoundNext(NoAction) \/ OnRoundPrev(NoAction))
     \/ OnStartCategory("Elch")
     \/ OnFinishCategory(NoAction)
     \/ OnGotoLobby

\* C34: nextRound, prevRound, startCategory, finishCategory and gotoLobby
\* leave no answer window and no buzz behind, so the auto-unlock never acts
\* in the new context on a window opened in the previous one.
C34_WindowCancelled ==
  [][ContextStep => (elch'.buzzAnswerEndsAt = {} /\ elch'.buzzOrder = <<>>)]_vars

\* The tokens credited to teams in the running category.
CategoryPaid == SumOver(categoryEarnings, DOMAIN categoryEarnings)

\* C35: from the lock of the stakes to the end of the category, with only
\* resolveRound, nextRound, prevRound and announceResult in between, the
\* tokens credited to the teams never exceed categoryPot.
C35_PotBounds == phase = "CATEGORY" => CategoryPaid <= categoryPot

\* The file written at the last restart says the round was resolved, and
\* nothing was handled since the start-up.
BootedResolved ==
  /\ lastCmd.op = "restart"
  /\ \E d \in disk : d.state.roundResolved

\* C36: a round that is resolved when the process is stopped is still
\* marked resolved after the start-up from the snapshot, and a resolveRound
\* repeated for it then changes no balance and no carry.
C36_ResolvedSurvives ==
  [][/\ (RestartStep /\ isRoundResolved) => isRoundResolved'
     /\ (BootedResolved /\ \E winnerId \in {"t1", Null} : ResolveStep(winnerId, {}))
          => UNCHANGED <<teams, carryRound>>]_vars

\* C37: whenever buzzOrder is not empty the buzzer is locked and buzzOrder
\* holds one entry.
C37_OneBuzzLocked ==
  elch.buzzOrder # <<>> => (elch.buzzLocked /\ Len(elch.buzzOrder) <= 1)

\* C38: a pending result is the result of the current round, and that
\* round is marked resolved; startCategory and fullReset in particular leave
\* none behind for a round that was not resolved.
C38_PendingCurrent ==
  \A r \in pendingResult :
    /\ r.category = currentCategory
    /\ r.roundIndex = roundIndex
    /\ isRoundResolved

\* The ids in buzzOrder.
Buzzers == {elch.buzzOrder[i] : i \in 1..Len(elch.buzzOrder)}

\* C39: every id in buzzOrder or in submissions is the id of a registered
\* team: what a connection that never joined, or a kicked team, sends is
\* not stored and does not lock the buzzer.
C39_KnownSenders == (Buzzers \cup DOMAIN submissions) \subseteq DOMAIN teams

\* C40: the buzzer is marked exhausted only while no label is active.
C40_ExhaustedIdle == elch.exhausted => elch.category = Null

=============================================================================
